---- MODULE Spec2Model ----
(***************************************************************************)
(* A model of the Kismet web UI's configuration codec                      *)
(* (src/config_manager.py, class ConfigManager): the source-directive      *)
(* parser and generator, the grid-coordinate conversion, the generation    *)
(* and parsing of kismet_site.conf, and load_config / save_config over the *)
(* candidate paths.                                                        *)
(*                                                                         *)
(* Python str values are TLA+ strings; TLC evaluates Len, \o and SubSeq on *)
(* them, so every str method used by the code is written out below over    *)
(* characters.  Python dicts are functions from key strings.  An Optional  *)
(* value is <<>> (None) or <<v>>.                                          *)
(***************************************************************************)
EXTENDS Integers, Sequences, FiniteSets, TLC

VARIABLES
    pc,       \* position of the operation sequence being exercised
    src,      \* source codec: the source dict handed to _generate_source_line
    line,     \* source codec: the directive text (generated or hand-written)
    parsed,   \* source codec: what _parse_source_line returned
    coord,    \* grid conversion: the coordinate text handed to _mgrs_to_latlon
    latlon,   \* grid conversion: the (lat, lon) it returned
    doc0,     \* site file: the config_data dict as the caller first built it
    doc,      \* site file: the config_data dict now (generation appends to its list)
    text,     \* site file: the content generated, or a hand-written file
    redoc,    \* site file: what _parse_config_file returned, <<>> if it raised
    gens,     \* site file: how many times content was generated
    fs,       \* files: path -> [exists, readable, mode, content]
    loaded,   \* files: the dict load_config returned
    log,      \* files: what load_config / save_config wrote to the logger
    call,     \* files: the locals of the running save_config call
    returned, \* files: the dict save_config returned
    fs0,      \* files: fs as it was before the first call
    gdoc,     \* gpsd defaults: the config_data dict handed to _generate_gpsd_defaults
    gtext,    \* gpsd defaults: the content generated
    gparsed,  \* gpsd defaults: what _parse_gpsd_defaults returned for it
    rtl_output,  \* device detection: what rtl_test printed
    rtl_devices  \* device detection: the list _parse_rtl_test returned

sourceVars == <<src, line, parsed>>
mgrsVars == <<coord, latlon>>
configVars == <<doc0, doc, text, redoc, gens>>
fileVars == <<fs, loaded, log, call, returned, fs0>>
gpsdVars == <<gdoc, gtext, gparsed>>
rtlVars == <<rtl_output, rtl_devices>>
vars == <<pc, sourceVars, mgrsVars, configVars, fileVars, gpsdVars, rtlVars>>

None == <<>>
Some(v) == <<v>>

(***************************************************************************)
(* Python str methods                                                      *)
(***************************************************************************)
Char(s, i) == SubSeq(s, i, i)

Min(S) == CHOOSE m \in S : \A n \in S : m <= n

StartsWith(s, p) == Len(p) <= Len(s) /\ SubSeq(s, 1, Len(p)) = p

\* p in s
Contains(s, p) ==
    \E i \in 1..(Len(s) - Len(p) + 1) : SubSeq(s, i, i + Len(p) - 1) = p

\* positions of the one-character separator c in s
Positions(s, c) == {i \in 1..Len(s) : Char(s, i) = c}

\* s.split(c): every occurrence of c separates two pieces
Split(s, c) ==
    LET RECURSIVE Pieces(_, _)
        Pieces(a, Q) ==
            IF Q = {} THEN <<SubSeq(s, a, Len(s))>>
            ELSE LET m == Min(Q)
                 IN  <<SubSeq(s, a, m - 1)>> \o Pieces(m + 1, Q \ {m})
    IN  Pieces(1, Positions(s, c))

\* s.split(c, 1): one or two pieces, cut at the first c
SplitOnce(s, c) ==
    LET P == Positions(s, c)
    IN  IF P = {} THEN <<s>>
        ELSE <<SubSeq(s, 1, Min(P) - 1), SubSeq(s, Min(P) + 1, Len(s))>>

\* sep.join(parts)
RECURSIVE Join(_, _)
Join(parts, sep) ==
    IF parts = <<>> THEN ""
    ELSE IF Len(parts) = 1 THEN parts[1]
    ELSE parts[1] \o sep \o Join(Tail(parts), sep)

\* s.strip(chars): drop leading and trailing characters that are in cs
StripSet(s, cs) ==
    LET keep == {i \in 1..Len(s) : Char(s, i) \notin cs}
    IN  IF keep = {} THEN ""
        ELSE SubSeq(s, Min(keep), CHOOSE m \in keep : \A n \in keep : n <= m)

Whitespace == {" ", "\t", "\n", "\r", "\f"}

\* s.strip()
Strip(s) == StripSet(s, Whitespace)

UpperLetters == "ABCDEFGHIJKLMNOPQRSTUVWXYZ"
LowerLetters == "abcdefghijklmnopqrstuvwxyz"

LowerChar(c) ==
    IF \E i \in 1..Len(UpperLetters) : Char(UpperLetters, i) = c
    THEN Char(LowerLetters, CHOOSE i \in 1..Len(UpperLetters) : Char(UpperLetters, i) = c)
    ELSE c

UpperChar(c) ==
    IF \E i \in 1..Len(LowerLetters) : Char(LowerLetters, i) = c
    THEN Char(UpperLetters, CHOOSE i \in 1..Len(LowerLetters) : Char(LowerLetters, i) = c)
    ELSE c

RECURSIVE MapChars(_, _, _)
MapChars(s, i, up) ==
    IF i > Len(s) THEN ""
    ELSE (IF up THEN UpperChar(Char(s, i)) ELSE LowerChar(Char(s, i)))
         \o MapChars(s, i + 1, up)

\* s.lower(), s.upper()
Lower(s) == MapChars(s, 1, FALSE)
Upper(s) == MapChars(s, 1, TRUE)

\* dict.get(k, default)
Get(d, k, default) == IF k \in DOMAIN d THEN d[k] ELSE default

\* d[k] = v
Put(d, k, v) == [x \in DOMAIN d \cup {k} |-> IF x = k THEN v ELSE d[x]]

EmptyDict == [x \in {} |-> ""]

(***************************************************************************)
(* _parse_source_line                                                      *)
(*                                                                         *)
(* An option value is a str, or True for a bare flag.  OptVal keeps the    *)
(* two apart: [flag |-> TRUE] is Python's True.                            *)
(***************************************************************************)
StrVal(s) == [flag |-> FALSE, s |-> s]
FlagVal == [flag |-> TRUE, s |-> ""]

\* A str-typed field into which the code lets a bare flag's True through
\* (name, channel, frequency, gain, ...) holds the text Python prints for it.
PyTrue == "True"
OptText(v) == IF v.flag THEN PyTrue ELSE v.s

\* parse_opts(t), the loop body for one chunk
ParseChunk(opts, raw) ==
    LET chunk == Strip(raw)
    IN  IF chunk = "" THEN opts
        ELSE IF Contains(chunk, "=")
        THEN LET kv == SplitOnce(chunk, "=")
             IN  Put(opts, Strip(kv[1]),
                     StrVal(StripSet(StripSet(Strip(kv[2]), {"\""}), {"'"})))
        ELSE Put(opts, chunk, FlagVal)

RECURSIVE ParseChunks(_, _, _)
ParseChunks(chunks, i, opts) ==
    IF i > Len(chunks) THEN opts
    ELSE ParseChunks(chunks, i + 1, ParseChunk(opts, chunks[i]))

\* parse_opts(t)
ParseOpts(t) == ParseChunks(Split(t, ","), 1, [x \in {} |-> FlagVal])

\* opts.get(k, default) where the code goes on to use the value as a str
OptGet(opts, k, default) == IF k \in DOMAIN opts THEN OptText(opts[k]) ELSE default

\* truthiness of opts.get(k): a non-empty str, or True
OptTruthy(opts, k) == k \in DOMAIN opts /\ (opts[k].flag \/ opts[k].s # "")

\* parse_bool(k, default)
ParseBoolTexts == {"1", "true", "yes", "on"}
ParseBool(opts, k, default) ==
    IF k \in DOMAIN opts
    THEN IF opts[k].flag THEN TRUE ELSE Lower(opts[k].s) \in ParseBoolTexts
    ELSE default

\* opts.get('type', '').lower() == t; the .lower() of a bare flag raises
TypeIsFlag(opts) == "type" \in DOMAIN opts /\ opts["type"].flag
TypeIs(opts, t) == "type" \in DOMAIN opts /\ ~opts["type"].flag /\ Lower(opts["type"].s) = t

\* the first truthy of opts.get('device'), 'interface', 'if', 'dev', else ''
BluetoothIface(opts, prefix) ==
    LET alias == <<"device", "interface", "if", "dev">>
        hit == {i \in 1..4 : OptTruthy(opts, alias[i])}
        iface == IF hit = {} THEN "" ELSE OptText(opts[alias[Min(hit)]])
    IN  IF iface = "" /\ StartsWith(Lower(prefix), "hci") THEN prefix ELSE iface

SplitPrefixTail(ln) ==
    LET body == IF StartsWith(ln, "source=") THEN SubSeq(ln, 8, Len(ln)) ELSE ln
        cut == SplitOnce(body, ":")
    IN  IF Len(cut) = 2 THEN cut ELSE <<body, "">>

SourceType_SdrFirst(prefix, opts) ==
    LET pl == Lower(prefix)
    IN  IF StartsWith(pl, "rtl433") \/ Contains(pl, "rtl433") \/ TypeIs(opts, "rtl433")
        THEN "rtl433"
        ELSE IF StartsWith(pl, "hci") \/ Contains(pl, "bluetooth") \/ TypeIs(opts, "bluetooth")
        THEN "bluetooth"
        ELSE "wifi"
SourceType(prefix, opts) ==
    LET pl == Lower(prefix)
    IN  IF StartsWith(pl, "hci") \/ Contains(pl, "bluetooth") \/ TypeIs(opts, "bluetooth")
        THEN "bluetooth"
        ELSE IF StartsWith(pl, "rtl433") \/ Contains(pl, "rtl433") \/ TypeIs(opts, "rtl433")
        THEN "rtl433"
        ELSE "wifi"

\* the type test reaches .lower() on a bare flag: AttributeError
SourceTypeRaises(prefix, opts) ==
    LET pl == Lower(prefix)
    IN  ~(StartsWith(pl, "hci") \/ Contains(pl, "bluetooth")) /\ TypeIsFlag(opts)

\* the fields of a WiFi source; .strip('"') of a bare `channels` flag raises
WifiFields(prefix, opts) ==
    [interface        |-> prefix,
     channel          |-> OptGet(opts, "channel", ""),
     channels         |-> StripSet(StripSet(OptGet(opts, "channels", ""), {"\""}), {"'"}),
     channel_hop      |-> ParseBool(opts, "channel_hop", TRUE),
     channel_hop_rate |-> OptGet(opts, "channel_hop_rate",
                                 OptGet(opts, "channel_hoprate", "5/sec")),
     ht_channels      |-> ParseBool(opts, "ht_channels", TRUE),
     vht_channels     |-> ParseBool(opts, "vht_channels", TRUE),
     band24ghz        |-> ParseBool(opts, "band24ghz", TRUE),
     band5ghz         |-> ParseBool(opts, "band5ghz", TRUE),
     band6ghz         |-> ParseBool(opts, "band6ghz", FALSE)]

WifiRaises(opts) == "channels" \in DOMAIN opts /\ opts["channels"].flag

SdrFields_PrefixDevice(prefix, opts) ==
    [device |-> prefix, frequency |-> OptGet(opts, "channel", OptGet(opts, "frequency", ""))]
    @@ (IF "gain" \in DOMAIN opts THEN "gain" :> OptText(opts["gain"]) ELSE EmptyDict)
    @@ (IF "ppm_error" \in DOMAIN opts
        THEN "ppm_error" :> OptText(opts["ppm_error"]) ELSE EmptyDict)
SdrFields(prefix, opts) ==
    LET base == [device    |-> IF OptTruthy(opts, "device")
                               THEN OptText(opts["device"]) ELSE prefix,
                 frequency |-> OptGet(opts, "channel", OptGet(opts, "frequency", ""))]
        gain == IF "gain" \in DOMAIN opts
                THEN "gain" :> OptText(opts["gain"]) ELSE EmptyDict
        ppm  == IF "ppm_error" \in DOMAIN opts
                THEN "ppm_error" :> OptText(opts["ppm_error"]) ELSE EmptyDict
    IN  base @@ gain @@ ppm

\* _parse_source_line(source_line): None, or the source dict
ParseSourceLine(source_line) ==
    LET ln == Strip(source_line)
        pt == SplitPrefixTail(ln)
        prefix == pt[1]
        opts == IF pt[2] # "" THEN ParseOpts(pt[2]) ELSE [x \in {} |-> FlagVal]
        type == SourceType(prefix, opts)
        head == [type |-> type, name |-> OptGet(opts, "name", prefix)]
    IN  IF ln = "" THEN None
        ELSE IF SourceTypeRaises(prefix, opts) THEN None
        ELSE IF type = "bluetooth"
        THEN Some(head @@ [interface |-> BluetoothIface(opts, prefix)])
        ELSE IF type = "rtl433"
        THEN Some(head @@ SdrFields(prefix, opts))
        ELSE IF WifiRaises(opts) THEN None
        ELSE Some(head @@ WifiFields(prefix, opts))

(***************************************************************************)
(* _generate_source_line                                                   *)
(***************************************************************************)
\* the comma-joined options after the colon, or the bare prefix when none
WithOptions(prefix, options) ==
    IF options = <<>> THEN prefix ELSE prefix \o ":" \o Join(options, ",")

Opt(cond, option) == IF cond THEN <<option>> ELSE <<>>

GenerateSdr_NameFirst(source, interface, name) ==
    WithOptions(interface,
        <<"type=rtl433">>
        \o Opt(name # "" /\ name # interface, "name=" \o name)
        \o Opt(Get(source, "frequency", "") # "", "channel=" \o Get(source, "frequency", ""))
        \o Opt(Get(source, "gain", "") # "", "gain=" \o Get(source, "gain", ""))
        \o Opt(Get(source, "ppm_error", "") # "", "ppm_error=" \o Get(source, "ppm_error", "")))
GenerateSdr(source, interface, name) ==
    WithOptions(interface,
        <<"type=rtl433">>
        \o Opt(Get(source, "frequency", "") # "", "channel=" \o Get(source, "frequency", ""))
        \o Opt(name # "" /\ name # interface, "name=" \o name)
        \o Opt(Get(source, "gain", "") # "", "gain=" \o Get(source, "gain", ""))
        \o Opt(Get(source, "ppm_error", "") # "", "ppm_error=" \o Get(source, "ppm_error", "")))

\* ':'.join(parts)
GenerateBluetooth(source, interface, name) ==
    LET iface == Get(source, "interface", interface)
        options == Opt(iface # "", "device=" \o iface)
                   \o Opt(name # "bluetooth", "name=" \o name)
    IN  IF iface # "" /\ StartsWith(iface, "hci")
        THEN Join(<<iface>> \o Opt(name # iface, "name=" \o name), ":")
        ELSE Join(<<"bluetooth">> \o Opt(options # <<>>, Join(options, ",")), ":")

GenerateWifi(source, interface, name) ==
    LET hop == Get(source, "channel_hop", TRUE)
        hop_rate == Get(source, "channel_hop_rate", "5/sec")
        channel == Get(source, "channel", "")
        channels == Get(source, "channels", "")
    IN  WithOptions(interface,
            Opt(name # interface, "name=" \o name)
            \o (IF ~hop THEN <<"channel_hop=false">>
                ELSE Opt(hop_rate # "" /\ hop_rate # "5/sec", "channel_hoprate=" \o hop_rate))
            \o Opt(channel # "", "channel=" \o channel)
            \o Opt(channel # "" /\ hop, "channel_hop=false")
            \o Opt(channels # "", "channels=\"" \o channels \o "\"")
            \o Opt(Get(source, "band24ghz", TRUE), "band24ghz=true")
            \o Opt(Get(source, "band5ghz", TRUE), "band5ghz=true")
            \o Opt(Get(source, "band6ghz", FALSE), "band6ghz=true")
            \o Opt(~Get(source, "ht_channels", TRUE), "ht_channels=false")
            \o Opt(~Get(source, "vht_channels", TRUE), "vht_channels=false"))

\* _generate_source_line(source): None, or the directive text after `source=`
GenerateSourceLine(source) ==
    LET source_type == Get(source, "type", "wifi")
        interface == IF source_type = "rtl433" THEN Get(source, "device", "")
                     ELSE Get(source, "interface", "")
        name == Get(source, "name", interface)
    IN  IF interface = "" THEN None
        ELSE IF source_type = "rtl433" THEN Some(GenerateSdr(source, interface, name))
        ELSE IF source_type = "bluetooth" THEN Some(GenerateBluetooth(source, interface, name))
        ELSE Some(GenerateWifi(source, interface, name))

(***************************************************************************)
(* The source dicts and directive texts the source codec is exercised on   *)
(***************************************************************************)
\* what the /config form handler builds for a WiFi row (routes.py)
WifiSpecs ==
    [type : {"wifi"}, interface : {"wlan0"}, name : {"wlan0", "office"},
     channel : {"", "6"}, channels : {"", "36", "1,6,11"},
     channel_hop : BOOLEAN, channel_hop_rate : {"5/sec", "10/sec"},
     ht_channels : BOOLEAN, vht_channels : BOOLEAN,
     band24ghz : BOOLEAN, band5ghz : BOOLEAN, band6ghz : BOOLEAN]

BluetoothSpecs ==
    [type : {"bluetooth"}, interface : {"hci0", "AA:BB"}, name : {"hci0", "AA:BB", "bt"}]

SdrSpecs ==
    {base @@ gain @@ ppm :
        base \in [type : {"rtl433"}, device : {"rtl433-0"}, name : {"rtl433-0", "test"},
                  frequency : {"", "433920000"}],
        gain \in {EmptyDict, "gain" :> "40"},
        ppm \in {EmptyDict, "ppm_error" :> "1"}}

SourceSpecs == WifiSpecs \cup BluetoothSpecs \cup SdrSpecs

\* hand-written directives, as a site file may hold them
DirectiveTexts ==
    {"wlan0:channel=6,band6ghz=true",
     "rtl433-0:type=rtl433,channel=433920000,name=test",
     "source=wlan1:name=roof,channel_hop=no,channel_hop_rate=3/sec",
     "wlan0:channels=\"1,6,11\",ht_channels",
     "hci0", "hci0:name=bt", "bluetooth", "bluetooth:device=hci1",
     "wlan0:type=Bluetooth,if=hci2", "hci-rtl433:type=rtl433",
     "rtl433:device=rtl433-1,frequency=915M,gain=20,ppm_error=2",
     "rtl433-2:frequency=915M,channel=868M", "sdr0:type=RTL433,device=",
     "wlan0:type", "wlan0:channels", "wlan0", "  ", ":name=x"}

(***************************************************************************)
(* The source codec as a state machine: a source dict is generated into a  *)
(* directive and the directive parsed back; a hand-written directive is    *)
(* parsed.                                                                 *)
(***************************************************************************)
MgrsIdle == coord = None /\ latlon = None
ConfigIdle == doc0 = None /\ doc = None /\ text = None /\ redoc = None /\ gens = 0
FilesIdle ==
    fs = None /\ loaded = None /\ log = <<>> /\ call = None /\ returned = None /\ fs0 = None
GpsdIdle == gdoc = None /\ gtext = None /\ gparsed = None
RtlIdle == rtl_output = None /\ rtl_devices = None

InitSource ==
    /\ MgrsIdle /\ ConfigIdle /\ FilesIdle /\ GpsdIdle /\ RtlIdle
    /\ \/ /\ pc = "spec"
          /\ src \in {Some(s) : s \in SourceSpecs}
          /\ line = None
       \/ /\ pc = "text"
          /\ src = None
          /\ line \in {Some(t) : t \in DirectiveTexts}
    /\ parsed = None

GenerateSource ==
    /\ pc = "spec"
    /\ line' = GenerateSourceLine(src[1])
    /\ pc' = "generated"
    /\ UNCHANGED <<src, parsed, mgrsVars, configVars, fileVars, gpsdVars, rtlVars>>

ParseSource ==
    /\ pc \in {"generated", "text"}
    /\ line # None
    /\ parsed' = ParseSourceLine(line[1])
    /\ pc' = "parsed"
    /\ UNCHANGED <<src, line, mgrsVars, configVars, fileVars, gpsdVars, rtlVars>>

NextSource == GenerateSource \/ ParseSource

SpecSource == InitSource /\ [][NextSource]_vars

\* C1: for every valid source spec s, parsing the directive generated from s
\* returns a spec equal to s on every structured field.
C1_RoundTrip ==
    pc = "parsed" /\ src # None => parsed = src

\* C2: a WiFi directive with a `channel` option and no `channel_hop` option
\* parses with channel_hop = FALSE; `wlan0:channel=6,band6ghz=true` parses to
\* WiFi wlan0/wlan0, channel 6, hopping off, all three bands on.
C2_FixedChannelHopOff ==
    pc = "parsed" /\ src = None /\ parsed # None /\ parsed[1].type = "wifi" =>
        LET opts == ParseOpts(SplitPrefixTail(Strip(line[1]))[2])
        IN  /\ ("channel" \in DOMAIN opts /\ "channel_hop" \notin DOMAIN opts
                    => parsed[1].channel_hop = FALSE)
            /\ (line[1] = "wlan0:channel=6,band6ghz=true" =>
                    /\ parsed[1].interface = "wlan0" /\ parsed[1].name = "wlan0"
                    /\ parsed[1].channel = "6" /\ parsed[1].channel_hop = FALSE
                    /\ parsed[1].band24ghz /\ parsed[1].band5ghz /\ parsed[1].band6ghz)

(***************************************************************************)
(* _mgrs_to_latlon (the second definition, which replaces the first at     *)
(* class creation).  A float is the exact rational <<numerator,            *)
(* denominator>> with a power of ten as denominator; every value the       *)
(* conversion computes is such a decimal.                                  *)
(***************************************************************************)
Digits == "0123456789"
IsDigit(c) == \E i \in 1..10 : Char(Digits, i) = c
DigitValue(c) == (CHOOSE i \in 1..10 : Char(Digits, i) = c) - 1

\* int(s) for a run of decimal digits
RECURSIVE IntOf(_)
IntOf(s) ==
    IF s = "" THEN 0
    ELSE 10 * IntOf(SubSeq(s, 1, Len(s) - 1)) + DigitValue(Char(s, Len(s)))

\* int(s) raises ValueError on anything that is not a decimal number
AllDigits(s) == \A i \in 1..Len(s) : IsDigit(Char(s, i))

RECURSIVE Pow10(_)
Pow10(n) == IF n = 0 THEN 1 ELSE 10 * Pow10(n - 1)

\* mgrs_coord.replace(' ', '')
RECURSIVE RemoveSpaces(_)
RemoveSpaces(s) ==
    IF s = "" THEN ""
    ELSE (IF Char(s, 1) = " " THEN "" ELSE Char(s, 1)) \o RemoveSpaces(Tail(s))

\* the number of leading digits: where the `while ... isdigit()` loop stops
ZoneDigits(m) ==
    IF AllDigits(m) THEN Len(m)
    ELSE Min({i \in 1..Len(m) : ~IsDigit(Char(m, i))}) - 1

FallbackLatLon == [lat |-> <<407128, 10000>>, lon |-> <<-740060, 10000>>]

MinZone == 1
MaxZone == 60
ZoneInRange_NoUpperBound(zone_num) == zone_num >= MinZone
ZoneInRange(zone_num) == zone_num >= MinZone /\ zone_num <= MaxZone

ZoneLetters == "CDEFGHJKLMNPQRSTUVWXX"
DefaultBandIdx == 10
\* zone_letters.index(zone_letter) if zone_letter in zone_letters else 10
LatBandIdx(zone_letter) ==
    LET hit == {i \in 1..Len(ZoneLetters) : Char(ZoneLetters, i) = zone_letter}
    IN  IF hit = {} THEN DefaultBandIdx ELSE Min(hit) - 1

\* max(lo, min(hi, v)) on a rational v
Clamp(v, lo, hi) ==
    IF v[1] > hi * v[2] THEN <<hi, 1>>
    ELSE IF v[1] < lo * v[2] THEN <<lo, 1>>
    ELSE v

\* the try block: [raised |-> TRUE], or the value it returns
MgrsTry(mgrs_coord) ==
    LET mgrs == Upper(RemoveSpaces(mgrs_coord))
        i0 == ZoneDigits(mgrs)
        zone_num == IntOf(SubSeq(mgrs, 1, i0))
        zone_letter == Char(mgrs, i0 + 1)
        coords == SubSeq(mgrs, i0 + 4, Len(mgrs))
        precision == Len(coords) \div 2
        easting == SubSeq(coords, 1, precision)
        northing == SubSeq(coords, precision + 1, Len(coords))
        central_meridian == (zone_num - 1) * 6 - 180 + 3
        base_lat == -80 + LatBandIdx(zone_letter) * 8
        scale == Pow10(precision)
        lon == <<(central_meridian - 3) * scale + IntOf(easting) * 6, scale>>
        lat == <<base_lat * scale + IntOf(northing) * 8, scale>>
    IN  IF Len(mgrs) < 5 THEN [raised |-> TRUE]
        ELSE IF i0 = 0 THEN [raised |-> TRUE]
        ELSE IF ~ZoneInRange(zone_num) THEN [raised |-> TRUE]
        ELSE IF i0 >= Len(mgrs) THEN [raised |-> TRUE]
        ELSE IF i0 + 2 >= Len(mgrs) THEN [raised |-> TRUE]
        ELSE IF Len(coords) % 2 # 0 THEN [raised |-> TRUE]
        ELSE IF ~AllDigits(coords) THEN [raised |-> TRUE]
        ELSE IF precision = 0
        THEN [raised |-> FALSE,
              lat |-> Clamp(<<base_lat, 1>>, -90, 90),
              lon |-> Clamp(<<central_meridian, 1>>, -180, 180)]
        ELSE [raised |-> FALSE,
              lat |-> Clamp(lat, -90, 90), lon |-> Clamp(lon, -180, 180)]

\* _mgrs_to_latlon(mgrs_coord): `except Exception` turns every raise of the
\* try block into the fallback
MgrsToLatLon(mgrs_coord) ==
    LET r == MgrsTry(mgrs_coord)
    IN  IF r.raised THEN FallbackLatLon ELSE [lat |-> r.lat, lon |-> r.lon]

(***************************************************************************)
(* The conversion as a state machine: one coordinate text, converted.      *)
(***************************************************************************)
MaxMgrsLen == 6
MgrsAlphabet == {"1", "6", "t", " "}

RECURSIVE Cat(_)
Cat(chars) == IF chars = <<>> THEN "" ELSE Head(chars) \o Cat(Tail(chars))

MgrsSamples ==
    {"", "1A", "61ABC1234", "18TWL8040008400", "18TWL123", "18AWL55",
     "60XWL99", "ABCDE", "0TWL12", "18TWLAB", "00001"}

SourceIdle == src = None /\ line = None /\ parsed = None

InitMgrs ==
    /\ SourceIdle /\ ConfigIdle /\ FilesIdle /\ GpsdIdle /\ RtlIdle
    /\ pc = "coord"
    /\ \/ \E n \in 0..MaxMgrsLen : \E f \in [1..n -> MgrsAlphabet] : coord = Some(Cat(f))
       \/ coord \in {Some(c) : c \in MgrsSamples}
    /\ latlon = None

Convert ==
    /\ pc = "coord"
    /\ latlon' = Some(MgrsToLatLon(coord[1]))
    /\ pc' = "converted"
    /\ UNCHANGED <<coord, sourceVars, configVars, fileVars, gpsdVars, rtlVars>>

NextMgrs == Convert

SpecMgrs == InitMgrs /\ [][NextMgrs]_vars

\* the input classes C3 names, told from the text alone
MgrsCompact(c) == Upper(RemoveSpaces(c))
MgrsTooShort(c) == Len(MgrsCompact(c)) < 5
MgrsNoZoneDigits(c) == MgrsCompact(c) = "" \/ ~IsDigit(Char(MgrsCompact(c), 1))
MgrsZoneOutOfRange(c) ==
    LET m == MgrsCompact(c)
        z == IntOf(SubSeq(m, 1, ZoneDigits(m)))
    IN  ZoneDigits(m) > 0 /\ (z < 1 \/ z > 60)
MgrsOddTail(c) ==
    LET m == MgrsCompact(c)
    IN  Len(m) >= ZoneDigits(m) + 3 /\ (Len(m) - ZoneDigits(m) - 3) % 2 = 1

IsLatLon(v) == DOMAIN v = {"lat", "lon"} /\ v.lat[2] > 0 /\ v.lon[2] > 0

\* C3: _mgrs_to_latlon always returns a (lat, lon) pair, and returns exactly
\* the fallback (40.7128, -74.0060) for the empty string, a text shorter than
\* 5 characters without its spaces, a text with no leading zone digits, a
\* zone outside 1..60, and an odd number of trailing coordinate characters.
C3_MgrsFallback ==
    pc = "converted" =>
        /\ latlon # None /\ IsLatLon(latlon[1])
        /\ (\/ coord[1] = ""
            \/ MgrsTooShort(coord[1])
            \/ MgrsNoZoneDigits(coord[1])
            \/ MgrsZoneOutOfRange(coord[1])
            \/ MgrsOddTail(coord[1])) => latlon[1] = FallbackLatLon

\* C3 witness: the out-of-range zone 61 has been converted
C3_Witness ==
    /\ pc = "converted"
    /\ coord[1] = "61ABC1234"
    /\ latlon[1] = FallbackLatLon

(***************************************************************************)
(* _generate_config_content                                                *)
(***************************************************************************)
\* str(n) of an int
RECURSIVE NatStr(_)
NatStr(n) == IF n < 10 THEN Char(Digits, n + 1)
             ELSE NatStr(n \div 10) \o Char(Digits, (n % 10) + 1)
IntStr(n) == IF n < 0 THEN "-" \o NatStr(-n) ELSE NatStr(n)

\* n as p digits, zero-padded on the left
RECURSIVE Padded(_, _)
Padded(n, p) == IF p = 0 THEN "" ELSE Padded(n \div 10, p - 1) \o NatStr(n % 10)

RECURSIVE TrimZeros(_)
TrimZeros(s) ==
    IF Len(s) > 1 /\ Char(s, Len(s)) = "0" THEN TrimZeros(SubSeq(s, 1, Len(s) - 1)) ELSE s

\* the fraction digits of n / 10^p, without trailing zeros but never empty
FractionStr(n, p) == TrimZeros(Padded(n, p))

RECURSIVE Log10(_)
Log10(d) == IF d = 1 THEN 0 ELSE 1 + Log10(d \div 10)

\* the text an f-string gives a number of _mgrs_to_latlon: an int prints
\* without a point, a float as its shortest decimal.  (A double computed by
\* `int(e) / 10**k * 6 - 3` can differ from the exact decimal in its last
\* place; the digits are not what any property below is about.)
NumberStr(v) ==
    IF v[2] = 1 THEN IntStr(v[1])
    ELSE LET a == IF v[1] < 0 THEN -v[1] ELSE v[1]
         IN  (IF v[1] < 0 THEN "-" ELSE "")
             \o NatStr(a \div v[2]) \o "." \o FractionStr(a % v[2], Log10(v[2]))

\* str(b) of a bool
BoolStr(b) == IF b THEN "True" ELSE "False"
TrueFalse(b) == IF b THEN "true" ELSE "false"

HeaderLines(now) ==
    <<"# Kismet site configuration file",
      "# Generated by Kismet Web UI for kismet_site.conf",
      "# Updated: " \o now,
      "",
      "# Copy this file to /etc/kismet/kismet_site.conf to override default settings",
      "">>

MarkerPrefix == "# WARDRIVE_MODE="

WardriveBundle ==
    <<"# WARDRIVING MODE ENABLED",
      "# This configuration is optimized for basic AP collection",
      "load_alert=WARDRIVING:Kismet is in survey/wardriving mode. This turns off tracking non-AP devices and most packet logging.",
      "",
      "# Wardriving optimizations",
      "dot11_ap_only_survey=true",
      "dot11_fingerprint_devices=false",
      "dot11_keep_ietags=false",
      "dot11_keep_eapol=false",
      "kis_log_channel_history=false",
      "kis_log_datasources=false",
      "",
      "# Enable management frame filter for better performance",
      "dot11_datasource_opt=filter_mgmt,true",
      "",
      "# Force disable HT/VHT channels on all sources",
      "dot11_datasource_opt=ht_channels,false",
      "dot11_datasource_opt=vht_channels,false",
      "dot11_datasource_opt=default_ht20,false",
      "dot11_datasource_opt=expand_ht20,false",
      "">>

\* `if wardrive_mode:` the bundle follows the marker
WardriveLines(wardrive_mode) ==
    <<MarkerPrefix \o BoolStr(wardrive_mode), "">>
    \o (IF wardrive_mode THEN WardriveBundle ELSE <<>>)

RECURSIVE SourceLines(_, _)
SourceLines(sources, i) ==
    IF i > Len(sources) THEN <<>>
    ELSE LET source_line == GenerateSourceLine(sources[i])
         IN  (IF source_line # None THEN <<"source=" \o source_line[1]>> ELSE <<>>)
             \o SourceLines(sources, i + 1)

DataSourceLines(config_data) ==
    LET sources == Get(config_data, "data_sources", <<>>)
    IN  IF sources # <<>>
        THEN <<"# Data Sources Configuration">> \o SourceLines(sources, 1) \o <<"">>
        ELSE <<>>

VirtualLine(lat, lon, alt) == "gps=virtual:lat=" \o lat \o ",lon=" \o lon \o ",alt=" \o alt

\* the mgrs branch: _mgrs_to_latlon never raises, so the except branch
\* ('# Invalid MGRS coordinate provided') is never taken
MgrsGpsLine(config_data) ==
    LET mgrs_coord == Get(config_data, "gps_mgrs", "")
        alt == Get(config_data, "gps_alt_mgrs", "0")
        ll == MgrsToLatLon(mgrs_coord)
    IN  IF mgrs_coord # ""
        THEN VirtualLine(NumberStr(ll.lat), NumberStr(ll.lon), alt)
        ELSE "# Virtual GPS enabled but no MGRS coordinate provided"

LatLonGpsLine(config_data) ==
    LET lat == Get(config_data, "gps_lat", "")
        lon == Get(config_data, "gps_lon", "")
        alt == IF Get(config_data, "gps_alt", "") # "" THEN config_data["gps_alt"]
               ELSE IF Get(config_data, "gps_alt_mgrs", "") # ""
               THEN config_data["gps_alt_mgrs"] ELSE "0"
    IN  IF lat # "" /\ lon # "" THEN VirtualLine(lat, lon, alt)
        ELSE "# Virtual GPS enabled but coordinates not provided"

GpsLines(config_data) ==
    LET gps_type == Get(config_data, "gps_type", "disabled")
    IN  <<"# GPS Configuration">>
        \o (IF gps_type \in {"gpsd", "remote"}
            THEN <<"gps=gpsd:host=" \o Get(config_data, "gps_host", "localhost")
                   \o ",port=" \o Get(config_data, "gps_port", "2947")>>
            ELSE IF gps_type = "virtual"
            THEN IF Get(config_data, "coord_format", "latlon") = "mgrs"
                 THEN <<MgrsGpsLine(config_data)>>
                 ELSE <<LatLonGpsLine(config_data)>>
            ELSE <<"# GPS disabled">>)
        \o <<"">>

InList(x, xs) == \E i \in 1..Len(xs) : xs[i] = x

EnsureWigle_NoMembershipTest(wardrive_mode, log_types) ==
    IF wardrive_mode THEN Append(log_types, "wiglecsv") ELSE log_types
EnsureWigle_Prepend(wardrive_mode, log_types) ==
    IF wardrive_mode /\ ~InList("wiglecsv", log_types)
    THEN <<"wiglecsv">> \o log_types ELSE log_types
\* `if wardrive_mode and 'wiglecsv' not in log_types: log_types.append(...)`
EnsureWigle(wardrive_mode, log_types) ==
    IF wardrive_mode /\ ~InList("wiglecsv", log_types)
    THEN Append(log_types, "wiglecsv") ELSE log_types

DefaultLogTypes == <<"kismet", "pcapng">>

LoggingLines(logging_config, log_types) ==
    <<"# Logging Configuration",
      "log_types=" \o Join(log_types, ","),
      "log_prefix=" \o Get(logging_config, "log_prefix", "/home/user/kismet"),
      "log_title=" \o Get(logging_config, "log_title", "Kismet_Wireless_Survey"),
      "logname=kismet",
      "",
      "# PCAP-NG Configuration",
      "pcapng_log_max_mb=" \o IntStr(Get(logging_config, "pcapng_log_max_mb", 0)),
      "pcapng_log_duplicate_packets="
          \o TrueFalse(Get(logging_config, "pcapng_log_duplicate_packets", TRUE)),
      "pcapng_log_data_packets="
          \o TrueFalse(Get(logging_config, "pcapng_log_data_packets", TRUE)),
      "channel_hop=true",
      "channel_hop_speed=5/sec",
      "",
      "# Device Detection & Alert Configuration",
      "kis_log_device_filter_default=pass">>

RECURSIVE MacLines(_, _, _)
MacLines(key, macs, i) ==
    IF i > Len(macs) THEN <<>>
    ELSE (IF Strip(macs[i]) # "" THEN <<key \o "=" \o Strip(macs[i])>> ELSE <<>>)
         \o MacLines(key, macs, i + 1)

AlertLines(device_alerts) ==
    LET found == Get(device_alerts, "device_found_macs", <<>>)
        lost == Get(device_alerts, "device_lost_macs", <<>>)
        found_timeout == Get(device_alerts, "device_found_timeout", "")
        lost_timeout == Get(device_alerts, "device_lost_timeout", "")
    IN  (IF found # <<>> THEN <<"# Device Found Alerts">> \o MacLines("devicefound", found, 1)
         ELSE <<>>)
        \o (IF lost # <<>> THEN <<"# Device Lost Alerts">> \o MacLines("devicelost", lost, 1)
            ELSE <<>>)
        \o Opt(found_timeout # "", "devicefound_timeout=" \o found_timeout)
        \o Opt(lost_timeout # "", "devicelost_timeout=" \o lost_timeout)

\* the lines list of _generate_config_content, before the join
ConfigLines(config_data, now) ==
    LET wardrive_mode == Get(config_data, "wardrive_mode", FALSE)
        logging_config == Get(config_data, "logging_config", EmptyDict)
        log_types == EnsureWigle(wardrive_mode,
                                 Get(logging_config, "log_types", DefaultLogTypes))
    IN  HeaderLines(now)
        \o WardriveLines(wardrive_mode)
        \o DataSourceLines(config_data)
        \o GpsLines(config_data)
        \o LoggingLines(logging_config, log_types)
        \o AlertLines(Get(config_data, "device_alerts", EmptyDict))
        \o <<"", "# Device Filtering Configuration", "">>

\* _generate_config_content(config_data), `now` being what `date` printed
GenerateConfigContent(config_data, now) == Join(ConfigLines(config_data, now), "\n")

\* config_data after the call: log_types.append works on the caller's list
AfterGenerate(config_data) ==
    IF "logging_config" \in DOMAIN config_data
       /\ "log_types" \in DOMAIN config_data["logging_config"]
    THEN [config_data EXCEPT !["logging_config"]["log_types"] =
              EnsureWigle(Get(config_data, "wardrive_mode", FALSE), @)]
    ELSE config_data

(***************************************************************************)
(* _parse_config_file                                                      *)
(***************************************************************************)
DefaultGpsParsed ==
    [enabled |-> FALSE, type |-> "disabled", host |-> "localhost", port |-> 2947,
     remote_host |-> "0.0.0.0", remote_port |-> 4545, lat |-> "", lon |-> "", alt |-> ""]

DefaultLogging ==
    [log_types |-> <<"kismet", "pcapng">>, log_prefix |-> "/home/user/kismet",
     log_title |-> "Kismet_Survey", pcapng_log_max_mb |-> 0,
     pcapng_log_duplicate_packets |-> TRUE, pcapng_log_data_packets |-> TRUE]

DefaultParsed ==
    [data_sources |-> <<>>, gps_config |-> DefaultGpsParsed,
     logging_config |-> DefaultLogging, wardrive_mode |-> FALSE]

\* int(s): decimal digits with an optional sign; anything else is a ValueError
IntParses(s) ==
    LET body == IF s # "" /\ Char(s, 1) \in {"-", "+"} THEN Tail(s) ELSE s
    IN  body # "" /\ AllDigits(body)
IntParse(s) ==
    IF Char(s, 1) = "-" THEN -IntOf(Tail(s))
    ELSE IF Char(s, 1) = "+" THEN IntOf(Tail(s))
    ELSE IntOf(s)

\* the loop over the gpsd: parameters; <<>> when int(port) raises
RECURSIVE GpsdParams(_, _, _)
GpsdParams(params, i, gps) ==
    IF i > Len(params) THEN Some(gps)
    ELSE IF StartsWith(params[i], "host=")
    THEN GpsdParams(params, i + 1, [gps EXCEPT !.host = SubSeq(params[i], 6, Len(params[i]))])
    ELSE IF StartsWith(params[i], "port=")
    THEN IF IntParses(Strip(SubSeq(params[i], 6, Len(params[i]))))
         THEN GpsdParams(params, i + 1,
                  [gps EXCEPT !.port = IntParse(Strip(SubSeq(params[i], 6, Len(params[i]))))])
         ELSE None
    ELSE GpsdParams(params, i + 1, gps)

RECURSIVE VirtualParams(_, _, _)
VirtualParams(params, i, gps) ==
    IF i > Len(params) THEN gps
    ELSE LET v == SubSeq(params[i], 5, Len(params[i]))
         IN  VirtualParams(params, i + 1,
                 IF StartsWith(params[i], "lat=") THEN [gps EXCEPT !.lat = v]
                 ELSE IF StartsWith(params[i], "lon=") THEN [gps EXCEPT !.lon = v]
                 ELSE IF StartsWith(params[i], "alt=") THEN [gps EXCEPT !.alt = v]
                 ELSE gps)

\* the `gps` key: None when int(port) raises
ParseGps(gps, value) ==
    LET on == [gps EXCEPT !.enabled = TRUE]
    IN  IF StartsWith(value, "gpsd:")
        THEN GpsdParams(Split(SubSeq(value, 6, Len(value)), ","), 1,
                        [on EXCEPT !.type = "gpsd"])
        ELSE IF StartsWith(value, "virtual:")
        THEN Some(VirtualParams(Split(SubSeq(value, 9, Len(value)), ","), 1,
                                [on EXCEPT !.type = "virtual"]))
        ELSE Some(on)

\* the marker line: `value == 'True'` after split('=', 1) and strip
IsMarkerLine_Comment(ln) == FALSE
IsMarkerLine(ln) == StartsWith(ln, MarkerPrefix)
MarkerValue(ln) == Strip(SplitOnce(ln, "=")[2]) = "True"

\* a parser in which a source that did not parse ends the parse of the file
AppendSource_Raises(config, source) ==
    IF source # None
    THEN Some([config EXCEPT !.data_sources = Append(@, source[1])])
    ELSE None
\* `if source: config['data_sources'].append(source)`
AppendSource(config, source) ==
    IF source # None
    THEN Some([config EXCEPT !.data_sources = Append(@, source[1])])
    ELSE Some(config)

\* one `key=value` line applied to config: None when an int() raises
ParseKeyValue(config, key, value) ==
    LET logging == config.logging_config
        SetLog(k, v) == Some([config EXCEPT !.logging_config = [logging EXCEPT ![k] = v]])
    IN  IF key = "source"
        THEN AppendSource(config, ParseSourceLine(value))
        ELSE IF key = "gps"
        THEN LET gps == ParseGps(config.gps_config, value)
             IN  IF gps = None THEN None ELSE Some([config EXCEPT !.gps_config = gps[1]])
        ELSE IF key = "log_types" THEN SetLog("log_types", Split(value, ","))
        ELSE IF key = "log_prefix" THEN SetLog("log_prefix", value)
        ELSE IF key = "log_title" THEN SetLog("log_title", value)
        ELSE IF key = "pcapng_log_max_mb"
        THEN IF IntParses(value) THEN SetLog("pcapng_log_max_mb", IntParse(value)) ELSE None
        ELSE IF key = "pcapng_log_duplicate_packets"
        THEN SetLog("pcapng_log_duplicate_packets", Lower(value) = "true")
        ELSE IF key = "pcapng_log_data_packets"
        THEN SetLog("pcapng_log_data_packets", Lower(value) = "true")
        ELSE IF key = "dot11_ap_only_survey" /\ Lower(value) = "true"
        THEN Some([config EXCEPT !.wardrive_mode = TRUE])
        ELSE IF key = "load_alert" /\ Contains(value, "WARDRIVING:")
        THEN Some([config EXCEPT !.wardrive_mode = TRUE])
        ELSE Some(config)

\* the body of the loop for one line
ParseLine(config, raw) ==
    LET ln == Strip(raw)
        kv == SplitOnce(ln, "=")
    IN  IF IsMarkerLine(ln) THEN Some([config EXCEPT !.wardrive_mode = MarkerValue(ln)])
        ELSE IF ln = "" \/ StartsWith(ln, "#") THEN Some(config)
        ELSE IF Contains(ln, "=") THEN ParseKeyValue(config, Strip(kv[1]), Strip(kv[2]))
        ELSE Some(config)

RECURSIVE ParseLines(_, _, _)
ParseLines(lines, i, config) ==
    IF i > Len(lines) THEN Some(config)
    ELSE LET next == ParseLine(config, lines[i])
         IN  IF next = None THEN None ELSE ParseLines(lines, i + 1, next[1])

\* _parse_config_file(content): the config dict, or None when it raises
ParseConfigFile(content) == ParseLines(Split(content, "\n"), 1, DefaultParsed)

(***************************************************************************)
(* The config_data dicts the /config form handler builds (routes.py), and  *)
(* hand-written site files                                                 *)
(***************************************************************************)
GpsForm(type, format, lat, lon, alt, mgrs) ==
    [gps_type |-> type, gps_host |-> "localhost", gps_port |-> "2947",
     gps_device |-> "all", gps_remote_host |-> "0.0.0.0", gps_remote_port |-> "4545",
     coord_format |-> format, gps_lat |-> lat, gps_lon |-> lon, gps_alt |-> alt,
     gps_alt_mgrs |-> "0", gps_mgrs |-> mgrs]

GpsForms ==
    {GpsForm("disabled", "latlon", "", "", "0", ""),
     GpsForm("gpsd", "latlon", "", "", "0", ""),
     GpsForm("remote", "latlon", "", "", "0", ""),
     GpsForm("virtual", "latlon", "40.1", "-75.2", "10", ""),
     GpsForm("virtual", "latlon", "", "-75.2", "0", ""),
     GpsForm("virtual", "latlon", "40.1", "", "0", ""),
     GpsForm("virtual", "mgrs", "", "", "0", ""),
     GpsForm("virtual", "mgrs", "", "", "0", "18TWL8040008400"),
     GpsForm("virtual", "mgrs", "", "", "0", "1A"),
     GpsForm("virtual", "mgrs", "40.1", "-75.2", "0", "61ABC1234")}

LogTypeNames == {"kismet", "pcapng", "wiglecsv"}
MaxLogTypes == 2
LogTypeLists == UNION {[1..n -> LogTypeNames] : n \in 0..MaxLogTypes}

LoggingForm(log_types, max_mb, duplicate, data) ==
    [log_types |-> log_types, log_prefix |-> "/home/user/kismet",
     log_title |-> "Kismet_Wireless_Survey", pcapng_log_max_mb |-> max_mb,
     pcapng_log_duplicate_packets |-> duplicate, pcapng_log_data_packets |-> data]

SampleWifi ==
    [type |-> "wifi", interface |-> "wlan0", name |-> "wlan0", channel |-> "",
     channels |-> "", channel_hop |-> TRUE, channel_hop_rate |-> "5/sec",
     ht_channels |-> TRUE, vht_channels |-> TRUE, band24ghz |-> TRUE,
     band5ghz |-> TRUE, band6ghz |-> FALSE]
SampleSdr ==
    [type |-> "rtl433", device |-> "rtl433-0", name |-> "test", frequency |-> "433920000"]

SourceLists == {<<>>, <<SampleWifi, SampleSdr>>}

AlertForms ==
    {[device_found_macs |-> <<>>, device_lost_macs |-> <<>>,
      device_found_timeout |-> "30", device_lost_timeout |-> "30"],
     [device_found_macs |-> <<"AA:BB:CC:DD:EE:FF">>, device_lost_macs |-> <<" ">>,
      device_found_timeout |-> "", device_lost_timeout |-> "60"]}

ConfigData(sources, alerts, wardrive, logging, gps) ==
    [data_sources |-> sources, device_alerts |-> alerts, wardrive_mode |-> wardrive,
     logging_config |-> logging] @@ gps

BaseGps == GpsForm("disabled", "latlon", "", "", "0", "")
BaseAlerts == CHOOSE a \in AlertForms : a.device_found_macs = <<>>

\* every GPS form, every log-type list with and without sources, and the
\* remaining logging and alert fields, each with survey mode on and off
ConfigDocs ==
    {ConfigData(<<SampleWifi>>, BaseAlerts, w, LoggingForm(<<"kismet", "pcapng">>, 0, TRUE, TRUE), g) :
        w \in BOOLEAN, g \in GpsForms}
    \cup {ConfigData(s, BaseAlerts, w, LoggingForm(lt, 0, TRUE, TRUE), BaseGps) :
        w \in BOOLEAN, s \in SourceLists, lt \in LogTypeLists}
    \cup {ConfigData(<<>>, a, w, LoggingForm(<<"kismet">>, 100, d, ~d), BaseGps) :
        w \in BOOLEAN, a \in AlertForms, d \in BOOLEAN}

\* what `date` prints at the time of a generation
Dates == {"Fri Nov  6 07:00:00 UTC 2026", "Fri Nov  6 07:00:01 UTC 2026"}

\* site files not written by this program
FileTexts ==
    {"",
     "source=wlan0\ndot11_ap_only_survey=true",
     "load_alert=WARDRIVING:survey\nlog_types=kismet",
     "# WARDRIVE_MODE=False\ndot11_ap_only_survey=true",
     "dot11_ap_only_survey=true\n# WARDRIVE_MODE=False",
     "# WARDRIVE_MODE=False\nload_alert=WARDRIVING:on\ngps=gpsd:host=localhost,port=2947",
     "# WARDRIVE_MODE=True\ndot11_ap_only_survey=false",
     "# WARDRIVE_MODE=True",
     "# WARDRIVE_MODE=False",
     "  # WARDRIVE_MODE= True  \nsource=hci0",
     "#WARDRIVE_MODE=True\n# comment",
     "log_title=a\npcapng_log_max_mb=abc",
     "gps=gpsd:host=h,port=x\nlog_title=b",
     "dot11_ap_only_survey=false\nload_alert=OTHER:text",
     "log_title=a\nsource=wlan0\nsource=wlan1:channels\nsource=hci0\ngps=gpsd:host=h,port=1\n# WARDRIVE_MODE=True",
     "source=wlan0:type\nlog_prefix=/tmp/k\nsource=rtl433-0:channel=433M",
     "source=\npcapng_log_max_mb=5\nsource=wlan0"}

(***************************************************************************)
(* The site file as a state machine: config_data is generated into content *)
(* (any number of times up to MaxGens), the content is parsed, and the     *)
(* parsed dict is handed to the generator again; a hand-written file is    *)
(* parsed.                                                                 *)
(***************************************************************************)
MaxGens == 2

InitConfig ==
    /\ SourceIdle /\ MgrsIdle /\ FilesIdle /\ GpsdIdle /\ RtlIdle
    /\ redoc = None /\ gens = 0
    /\ \/ /\ pc = "doc"
          /\ doc0 \in {Some(d) : d \in ConfigDocs}
          /\ doc = doc0
          /\ text = None
       \/ /\ pc = "file"
          /\ doc0 = None /\ doc = None
          /\ text \in {Some(f) : f \in FileTexts}

Generate ==
    /\ pc \in {"doc", "generated"}
    /\ gens < MaxGens
    /\ \E now \in Dates : text' = Some(GenerateConfigContent(doc[1], now))
    /\ doc' = Some(AfterGenerate(doc[1]))
    /\ gens' = gens + 1
    /\ pc' = "generated"
    /\ UNCHANGED <<doc0, redoc, sourceVars, mgrsVars, fileVars, gpsdVars, rtlVars>>

Parse ==
    /\ pc \in {"generated", "file"}
    /\ redoc' = ParseConfigFile(text[1])
    /\ pc' = "parsed"
    /\ UNCHANGED <<doc0, doc, text, gens, sourceVars, mgrsVars, fileVars, gpsdVars, rtlVars>>

\* the dict _parse_config_file returned becomes the next config_data
Reload ==
    /\ pc = "parsed"
    /\ doc # None /\ redoc # None
    /\ gens < MaxGens
    /\ doc' = redoc
    /\ pc' = "doc"
    /\ UNCHANGED <<doc0, text, redoc, gens, sourceVars, mgrsVars, fileVars, gpsdVars, rtlVars>>

NextConfig == Generate \/ Parse \/ Reload

SpecConfig == InitConfig /\ [][NextConfig]_vars

\* the lines of the content at hand
TextLines == Split(text[1], "\n")
LinesWhere(lines, Test(_)) == {i \in 1..Len(lines) : Test(lines[i])}
KeyOf(ln) == Strip(SplitOnce(ln, "=")[1])
IsGpsDirective(ln) == StartsWith(ln, "gps=")
IsLogTypesLine(ln) == StartsWith(ln, "log_types=")
IsMarkerText(ln) == StartsWith(Strip(ln), "# WARDRIVE_MODE=")
Occurrences(x, xs) == Cardinality({i \in 1..Len(xs) : xs[i] = x})
Survey(d) == Get(d, "wardrive_mode", FALSE)

\* Virtual mode with no position to resolve: a coordinate missing, the grid
\* coordinate empty, or a grid coordinate the conversion cannot take apart
VirtualUnresolved(d) ==
    /\ Get(d, "gps_type", "disabled") = "virtual"
    /\ IF Get(d, "coord_format", "latlon") = "mgrs"
       THEN Get(d, "gps_mgrs", "") = "" \/ MgrsTry(d["gps_mgrs"]).raised
       ELSE Get(d, "gps_lat", "") = "" \/ Get(d, "gps_lon", "") = ""

GpsExplanations ==
    {"# Virtual GPS enabled but coordinates not provided",
     "# Virtual GPS enabled but no MGRS coordinate provided",
     "# Invalid MGRS coordinate provided"}

\* C4: in Virtual mode with no resolvable position the generated content
\* holds an explanatory comment line and no gps= directive (and generation
\* returns content, so the save goes on).
C4_CommentInsteadOfDirective ==
    pc = "generated" /\ VirtualUnresolved(doc[1]) =>
        /\ text # None
        /\ LinesWhere(TextLines, IsGpsDirective) = {}
        /\ \E i \in 1..Len(TextLines) : TextLines[i] \in GpsExplanations

\* the directives of the survey bundle: its lines that are not comments
BundleDirectives ==
    {WardriveBundle[i] : i \in {j \in 1..Len(WardriveBundle) :
        WardriveBundle[j] # "" /\ ~StartsWith(WardriveBundle[j], "#")}}

\* how often wiglecsv stands in the value of the log_types line
WigleInText ==
    LET at == LinesWhere(TextLines, IsLogTypesLine)
        ln == TextLines[CHOOSE i \in at : TRUE]
    IN  Occurrences("wiglecsv", Split(SubSeq(ln, Len("log_types=") + 1, Len(ln)), ","))

BundleOnce ==
    /\ \A d \in BundleDirectives : Occurrences(d, TextLines) = 1
    /\ Cardinality(LinesWhere(TextLines, IsLogTypesLine)) = 1

\* C5 as stated: with survey mode on, every content generated (first, again
\* from the same document, or after a generate-parse-generate cycle) holds
\* each bundle directive exactly once and wiglecsv exactly once in log_types.
C5_ExactlyOnce ==
    pc = "generated" /\ Survey(doc0[1]) => BundleOnce /\ WigleInText = 1

\* C5 amended: each bundle directive exactly once, and wiglecsv exactly once
\* unless the document itself already listed it several times, in which case
\* exactly as often as the document did: generation never adds a second one.
C5_NoDuplication ==
    pc = "generated" /\ Survey(doc0[1]) =>
        LET before == Occurrences("wiglecsv", doc0[1].logging_config.log_types)
        IN  /\ BundleOnce
            /\ WigleInText = (IF before = 0 THEN 1 ELSE before)

\* C5 witness: survey mode on, wiglecsv not listed, and content generated a
\* second time after the first content was parsed and handed back
C5_Witness ==
    /\ pc = "generated" /\ gens = 2 /\ redoc # None
    /\ Survey(doc0[1])
    /\ ~InList("wiglecsv", doc0[1].logging_config.log_types)
    /\ WigleInText = 1

SectionKeys ==
    {"source", "gps", "log_types", "log_prefix", "log_title", "logname",
     "pcapng_log_max_mb", "pcapng_log_duplicate_packets", "pcapng_log_data_packets"}
IsSectionDirective(ln) == ~StartsWith(ln, "#") /\ Contains(ln, "=") /\ KeyOf(ln) \in SectionKeys

\* C6: with survey mode on the content holds the bundle as one block ahead of
\* every source, gps and logging directive, and the log_types line is the
\* document's own list, in order, with wiglecsv appended when it was missing;
\* [kismet] gives kismet,wiglecsv.
C6_BundleAndLogTypes ==
    pc = "generated" /\ Survey(doc0[1]) =>
        LET own == doc0[1].logging_config.log_types
            want == IF InList("wiglecsv", own) THEN own ELSE own \o <<"wiglecsv">>
            n == Len(WardriveBundle)
        IN  /\ \E k \in 1..Len(TextLines) :
                /\ SubSeq(TextLines, k, k + n - 1) = WardriveBundle
                /\ \A j \in LinesWhere(TextLines, IsSectionDirective) : j > k + n - 1
            /\ InList("dot11_ap_only_survey=true", TextLines)
            /\ InList("log_types=" \o Join(want, ","), TextLines)
            /\ Cardinality(LinesWhere(TextLines, IsLogTypesLine)) = 1
            /\ (own = <<"kismet">> => InList("log_types=kismet,wiglecsv", TextLines))

\* C6 witness: survey mode on, log_types [kismet], sources present
C6_Witness ==
    /\ pc = "generated" /\ Survey(doc0[1])
    /\ doc0[1].logging_config.log_types = <<"kismet">>
    /\ doc0[1].data_sources # <<>>
    /\ InList("log_types=kismet,wiglecsv", TextLines)

LegacySignal(ln) ==
    /\ ~StartsWith(Strip(ln), "#") /\ Contains(ln, "=")
    /\ \/ KeyOf(ln) = "dot11_ap_only_survey"
             /\ Lower(Strip(SplitOnce(Strip(ln), "=")[2])) = "true"
       \/ KeyOf(ln) = "load_alert" /\ Contains(ln, "WARDRIVING:")

\* C7: a file with the marker line parses to the marker's value; the legacy
\* signals make the flag true only in a file without the marker.
C7_MarkerDecides ==
    pc = "parsed" /\ redoc # None =>
        LET marks == LinesWhere(TextLines, IsMarkerText)
            mark == Strip(TextLines[CHOOSE i \in marks : TRUE])
        IN  /\ Cardinality(marks) = 1 =>
                redoc[1].wardrive_mode = (Strip(SplitOnce(mark, "=")[2]) = "True")
            /\ marks = {} =>
                redoc[1].wardrive_mode = (LinesWhere(TextLines, LegacySignal) # {})

\* C8: generated content holds the marker line exactly once, the parser takes
\* the flag from that line (it is not skipped as a comment), and the parsed
\* flag equals the document's, for both values.
C8_FlagRoundTrip ==
    pc = "parsed" /\ doc # None =>
        LET marks == LinesWhere(TextLines, IsMarkerText)
            alone == ParseLine(DefaultParsed, TextLines[CHOOSE i \in marks : TRUE])
        IN  /\ Cardinality(marks) = 1
            /\ alone # None /\ alone[1].wardrive_mode = Survey(doc[1])
            /\ redoc # None /\ redoc[1].wardrive_mode = Survey(doc[1])

\* C8 witness: a document with survey mode on, generated and parsed back
C8_Witness ==
    /\ pc = "parsed" /\ doc # None /\ gens = 1
    /\ Survey(doc[1]) /\ redoc # None /\ redoc[1].wardrive_mode

(***************************************************************************)
(* __init__, _parse_gpsd_defaults and load_config                          *)
(***************************************************************************)
ConfigPaths ==
    <<"/etc/kismet/kismet_site.conf", "/home/user/.kismet/kismet_site.conf",
      "./kismet_site.conf">>
GpsdPaths == <<"/etc/default/gpsd", "./gpsd">>

\* a split at the first separator, where the code splits at the last
RSplitOnce_First(s, c) ==
    LET P == Positions(s, c)
    IN  IF P = {} THEN <<s>>
        ELSE <<SubSeq(s, 1, Min(P) - 1), SubSeq(s, Min(P) + 1, Len(s))>>

\* s.rsplit(c, 1): one or two pieces, cut at the last c
RSplitOnce(s, c) ==
    LET P == Positions(s, c)
        m == CHOOSE x \in P : \A y \in P : y <= x
    IN  IF P = {} THEN <<s>> ELSE <<SubSeq(s, 1, m - 1), SubSeq(s, m + 1, Len(s))>>

\* the DEVICES= line applied to result
GpsdDevices(result, ln) ==
    LET devices == StripSet(Strip(SplitOnce(ln, "=")[2]), {"\""})
        addr == SubSeq(devices, 7, Len(devices))
        hp == RSplitOnce(addr, ":")
        remote == Put(result, "type", "remote")
    IN  IF StartsWith(devices, "udp://")
        THEN IF Contains(addr, ":")
             THEN IF IntParses(Strip(hp[2]))
                  THEN Put(Put(remote, "remote_host", hp[1]), "remote_port", IntParse(Strip(hp[2])))
                  ELSE Put(remote, "remote_host", hp[1])
             ELSE remote
        ELSE Put(result, "type", "gpsd")

RECURSIVE GpsdLines(_, _, _)
GpsdLines(lines, i, result) ==
    IF i > Len(lines) THEN result
    ELSE GpsdLines(lines, i + 1,
             IF StartsWith(Strip(lines[i]), "DEVICES=")
             THEN GpsdDevices(result, Strip(lines[i])) ELSE result)

\* _parse_gpsd_defaults(content): the keys to lay over gps_config
ParseGpsdDefaults(content) == GpsdLines(Split(content, "\n"), 1, EmptyDict)

\* the dict load_config starts from
LoadDefaults ==
    [data_sources |-> <<>>,
     gps_config |-> [enabled |-> FALSE, type |-> "disabled", host |-> "localhost",
                     port |-> 2947, remote_host |-> "0.0.0.0", remote_port |-> 4545,
                     lat |-> "", lon |-> "", alt |-> "", mgrs |-> "",
                     coord_format |-> "latlon"],
     logging_config |-> DefaultLogging,
     wardrive_mode |-> FALSE]

\* dict.update(other)
Update(d, other) == [k \in DOMAIN d \cup DOMAIN other |->
                        IF k \in DOMAIN other THEN other[k] ELSE d[k]]

MissingFile == [exists |-> FALSE, readable |-> FALSE, mode |-> "ok", content |-> ""]
File(content, readable, mode) ==
    [exists |-> TRUE, readable |-> readable, mode |-> mode, content |-> content]

LogEntry(level, what, path) == [level |-> level, what |-> what, path |-> path]

\* the loop over config_paths from candidate i on: os.path.exists, then
\* open/read/parse under one try; any exception logs and goes on to the next.
\* parses[i] is what _parse_config_file gives for candidate i, None if it raises
RECURSIVE LoadCandidates(_, _, _, _)
LoadCandidates(files, parses, i, state) ==
    IF i > Len(ConfigPaths) THEN state
    ELSE IF ~files[ConfigPaths[i]].exists THEN LoadCandidates(files, parses, i + 1, state)
    ELSE IF ~files[ConfigPaths[i]].readable \/ parses[i] = None
    THEN LoadCandidates(files, parses, i + 1,
             [state EXCEPT !.log = Append(@, LogEntry("error", "Error reading config",
                                                     ConfigPaths[i]))])
    ELSE [config |-> Update(state.config, parses[i][1]),
          log |-> Append(state.log, LogEntry("info", "Loaded config", ConfigPaths[i]))]

\* the loop over gpsd_paths
RECURSIVE LoadGpsd(_, _, _)
LoadGpsd(files, i, state) ==
    IF i > Len(GpsdPaths) THEN state
    ELSE IF ~files[GpsdPaths[i]].exists THEN LoadGpsd(files, i + 1, state)
    ELSE IF ~files[GpsdPaths[i]].readable
    THEN LoadGpsd(files, i + 1,
             [state EXCEPT !.log = Append(@, LogEntry("error", "Error reading gpsd config",
                                                     GpsdPaths[i]))])
    ELSE [state EXCEPT !.config.gps_config =
             Update(@, ParseGpsdDefaults(files[GpsdPaths[i]].content))]

\* load_config(): the dict returned and the log written
LoadConfig(files) ==
    LoadGpsd(files, 1,
        LoadCandidates(files,
            [i \in 1..Len(ConfigPaths) |-> ParseConfigFile(files[ConfigPaths[i]].content)],
            1, [config |-> LoadDefaults, log |-> <<>>]))

(***************************************************************************)
(* load_config as a state machine: one file system, loaded once.           *)
(***************************************************************************)
\* the content a candidate path may hold before the load: each path has its
\* own log_title, so the origin of a loaded key can be told
SiteTexts(i) ==
    LET n == IntStr(i)
    IN  {"log_title=site" \o n \o "\nsource=wlan" \o n \o "\nlog_types=kismet",
         "# WARDRIVE_MODE=True\nlog_title=site" \o n \o "\ngps=gpsd:host=gps" \o n \o ",port=2947",
         "log_title=site" \o n \o "\npcapng_log_max_mb=abc\nsource=wlan" \o n,
         "log_title=site" \o n \o "\ngps=virtual:lat=40.1,lon=-75.2,alt=10",
         "gps=gpsd:host=gps" \o n \o ",port=abc\nlog_title=site" \o n,
         "log_title=site" \o n \o "\ngps=serial:device=/dev/ttyUSB0"}

GpsdTexts ==
    {"START_DAEMON=\"true\"\nDEVICES=\"/dev/ttyUSB0 /dev/ttyACM0\"\n",
     "DEVICES=\"udp://0.0.0.0:4545\"\n"}

FileStates(texts) ==
    {MissingFile} \cup {File(c, r, "ok") : c \in texts, r \in {TRUE}}
    \cup {File(CHOOSE c \in texts : TRUE, FALSE, "ok")}

LoadFileSystems ==
    {(ConfigPaths[1] :> f1) @@ (ConfigPaths[2] :> f2) @@ (ConfigPaths[3] :> f3)
     @@ (GpsdPaths[1] :> g1) @@ (GpsdPaths[2] :> g2) :
        f1 \in FileStates(SiteTexts(1)), f2 \in FileStates(SiteTexts(2)),
        f3 \in FileStates(SiteTexts(3)),
        g1 \in FileStates(GpsdTexts), g2 \in {MissingFile, File("DEVICES=\"\"", TRUE, "ok")}}

InitLoad ==
    /\ SourceIdle /\ MgrsIdle /\ ConfigIdle /\ GpsdIdle /\ RtlIdle
    /\ pc = "files"
    /\ fs \in {Some(x) : x \in LoadFileSystems}
    /\ loaded = None
    /\ log = <<>>
    /\ call = None
    /\ returned = None
    /\ fs0 = fs

Load ==
    /\ pc = "files"
    /\ \E r \in {LoadConfig(fs[1])} : loaded' = Some(r.config) /\ log' = r.log
    /\ pc' = "loaded"
    /\ UNCHANGED <<fs, call, returned, fs0, sourceVars, mgrsVars, configVars, gpsdVars, rtlVars>>

NextLoad == Load

SpecLoad == InitLoad /\ [][NextLoad]_vars

\* the candidates that exist and can be read, by index
ReadableCandidates ==
    {i \in 1..Len(ConfigPaths) : fs[1][ConfigPaths[i]].exists /\ fs[1][ConfigPaths[i]].readable}
LoadedFrom ==
    {i \in 1..Len(ConfigPaths) : InList(LogEntry("info", "Loaded config", ConfigPaths[i]), log)}
TitleOf(content) ==
    LET at == {i \in 1..Len(Split(content, "\n")) :
                  StartsWith(Split(content, "\n")[i], "log_title=")}
        ln == Split(content, "\n")[Min(at)]
    IN  SubSeq(ln, Len("log_title=") + 1, Len(ln))
NoDefaultsFile == \A j \in 1..Len(GpsdPaths) : ~fs[1][GpsdPaths[j]].exists

\* C9: load_config overlays the first candidate, in priority order, that
\* exists and is readable, and that one only: no key of a lower-priority
\* candidate reaches the returned dict; with no candidate the dict is the
\* full defaults.
C9_FirstHitOnly ==
    pc = "loaded" =>
        /\ ReadableCandidates # {} =>
              /\ LoadedFrom = {Min(ReadableCandidates)}
              /\ \A i \in 1..Len(ConfigPaths) :
                    /\ i > Min(ReadableCandidates)
                    /\ fs[1][ConfigPaths[i]].exists
                    => loaded[1].logging_config.log_title
                          # TitleOf(fs[1][ConfigPaths[i]].content)
        /\ (\A i \in 1..Len(ConfigPaths) : ~fs[1][ConfigPaths[i]].exists) =>
              /\ LoadedFrom = {}
              /\ NoDefaultsFile => loaded[1] = LoadDefaults

(***************************************************************************)
(* _generate_gpsd_defaults and save_config                                 *)
(***************************************************************************)
GenerateGpsdDefaults(config_data) ==
    LET devices ==
            IF Get(config_data, "gps_type", "disabled") = "remote"
            THEN "udp://" \o Get(config_data, "gps_remote_host", "0.0.0.0") \o ":"
                 \o Get(config_data, "gps_remote_port", "4545")
            ELSE "/dev/ttyUSB0 /dev/ttyACM0"
    IN  Join(<<"START_DAEMON=\"true\"", "USBAUTO=\"true\"", "GPSD_OPTIONS=\"-n\"",
               "DEVICES=\"" \o devices \o "\"">>, "\n") \o "\n"

\* os.path.dirname(path)
Dirname(path) == IF Contains(path, "/") THEN RSplitOnce(path, "/")[1] ELSE ""

\* the candidates whose parent directory is checked, not created
IsSystemPath(path) == StartsWith(path, "/etc/") \/ StartsWith(path, "/usr/")

EtcKismet == "/etc/kismet"

\* the value returned after a candidate was written
Returns_FirstCandidate(config_path) == [success |-> TRUE, path |-> ConfigPaths[1]]
Returns(config_path) == [success |-> TRUE, path |-> config_path]

CouldNotWrite == [success |-> FALSE, error |-> "Could not write to any location"]

\* `continue` in the loop over config_paths, and in the loop over gpsd_paths
NextCandidate(c) == [c EXCEPT !.i = @ + 1]
NextGpsd(c) == [c EXCEPT !.j = @ + 1]

\* what a write that raised part way may leave in the file
Prefixes(content) == {"", SubSeq(content, 1, Len(content) \div 2)}

(***************************************************************************)
(* save_config as a state machine.  A file's mode is what writing it does: *)
(* "ok"; "denied", open raises PermissionError; "error", open raises       *)
(* another OSError; "partial", open succeeds and write raises.  A missing  *)
(* directory's mode is what os.makedirs does: "ok" or "denied".            *)
(***************************************************************************)
SaveDate == "Fri Nov  6 07:00:00 UTC 2026"

SaveDocs ==
    {ConfigData(<<SampleWifi>>, BaseAlerts, TRUE,
                LoggingForm(<<"kismet", "pcapng">>, 0, TRUE, TRUE),
                GpsForm("remote", "latlon", "", "", "0", "")),
     ConfigData(<<>>, BaseAlerts, FALSE,
                LoggingForm(<<"kismet">>, 0, TRUE, TRUE), BaseGps)}

Dir(exists, mode) == [exists |-> exists, readable |-> TRUE, mode |-> mode, content |-> ""]
OldText(i) == "log_title=old" \o IntStr(i)
WriteModes == {"ok", "denied", "error", "partial"}

\* a candidate in a directory that exists
InDir(i) ==
    {[MissingFile EXCEPT !.mode = m] : m \in WriteModes}
    \cup {File(OldText(i), TRUE, m) : m \in WriteModes}

\* directory and file of the candidates, of the gpsd defaults
EtcCandidates ==
    {<<Dir(FALSE, "denied"), MissingFile>>} \cup {<<Dir(TRUE, "ok"), f>> : f \in InDir(1)}
HomeCandidates ==
    {<<Dir(FALSE, "denied"), MissingFile>>}
    \cup {<<Dir(FALSE, "ok"), [MissingFile EXCEPT !.mode = m]>> : m \in WriteModes}
    \cup {<<Dir(TRUE, "ok"), File(OldText(2), TRUE, m)>> : m \in WriteModes}
EtcDefaults ==
    {<<Dir(FALSE, "denied"), MissingFile>>}
    \cup {<<Dir(TRUE, "ok"), [MissingFile EXCEPT !.mode = m]>> : m \in {"ok", "denied", "error"}}

SaveFileSystems ==
    {(EtcKismet :> e[1]) @@ (ConfigPaths[1] :> e[2])
     @@ (Dirname(ConfigPaths[2]) :> h[1]) @@ (ConfigPaths[2] :> h[2])
     @@ (Dirname(ConfigPaths[3]) :> Dir(TRUE, "ok")) @@ (ConfigPaths[3] :> f3)
     @@ (Dirname(GpsdPaths[1]) :> g[1]) @@ (GpsdPaths[1] :> g[2])
     @@ (GpsdPaths[2] :> [MissingFile EXCEPT !.mode = m])
     @@ ("/home/user/kismet" :> Dir(FALSE, lm)) :
        e \in EtcCandidates, h \in HomeCandidates, f3 \in InDir(3),
        g \in EtcDefaults, m \in {"ok", "denied"}, lm \in {"ok", "denied"}}

InitSave ==
    /\ SourceIdle /\ MgrsIdle /\ GpsdIdle /\ RtlIdle
    /\ doc0 \in {Some(d) : d \in SaveDocs}
    /\ doc = None /\ text = None /\ redoc = None /\ gens = 0
    /\ pc = "save"
    /\ fs \in {Some(x) : x \in SaveFileSystems}
    /\ loaded = None
    /\ log = <<>>
    /\ call = None
    /\ returned = None
    /\ fs0 = fs

Idle == UNCHANGED <<loaded, fs0, sourceVars, mgrsVars, configVars, gpsdVars, rtlVars>>

\* lines 105-106: both contents are generated before any candidate is tried;
\* generating the site file also makes the log directory (lines 559-565),
\* and a failure to make it is logged and swallowed
SaveBegin ==
    /\ pc = "save"
    /\ \E config_data \in {doc0[1]} :
          LET log_prefix == Get(Get(config_data, "logging_config", EmptyDict),
                                "log_prefix", "/home/user/kismet")
              made == fs[1][log_prefix].exists \/ fs[1][log_prefix].mode = "ok"
          IN  /\ call' = Some([config_data |-> AfterGenerate(config_data),
                               config_content |-> GenerateConfigContent(config_data, SaveDate),
                               gpsd_content |-> GenerateGpsdDefaults(config_data),
                               i |-> 1, j |-> 1])
              /\ fs' = Some([fs[1] EXCEPT ![log_prefix].exists = made])
              /\ log' = Append(log, IF made
                                    THEN LogEntry("info", "Ensured log directory exists", log_prefix)
                                    ELSE LogEntry("warning", "Could not create log directory", log_prefix))
    /\ pc' = "candidate"
    /\ UNCHANGED returned
    /\ Idle

config_path == ConfigPaths[call[1].i]
gpsd_path == GpsdPaths[call[1].j]

\* lines 112-115: a system path whose parent directory is missing
SkipCandidate ==
    /\ pc = "candidate" /\ call[1].i <= Len(ConfigPaths)
    /\ IsSystemPath(config_path) /\ ~fs[1][Dirname(config_path)].exists
    /\ log' = Append(log, LogEntry("info", "Skipping", config_path))
    /\ call' = Some(NextCandidate(call[1]))
    /\ UNCHANGED <<pc, fs, returned>>
    /\ Idle

\* lines 154-159 and 164: which except clause takes an exception raised
\* while a candidate is tried, and what it logs
Exceptions == {"PermissionError", "OSError"}
CandidateHandler_PermissionOnly(kind) ==
    IF kind = "PermissionError" THEN "warning" ELSE "propagate"
CandidateHandler(kind) ==
    IF kind = "PermissionError" THEN "warning"
    ELSE IF kind \in Exceptions THEN "error"
    ELSE "propagate"

\* the exception of a file's write mode
Raised(mode) == IF mode = "denied" THEN "PermissionError" ELSE "OSError"

\* an exception of this kind leaves the try block of the candidate at hand,
\* the files being as given: the candidate's handlers log it and go on to
\* the next candidate; what they do not take reaches the handler of the
\* whole call (lines 164-166), which returns the failure
CandidateRaises(kind, files) ==
    /\ fs' = Some(files)
    /\ IF CandidateHandler(kind) = "propagate"
       THEN /\ log' = Append(log, LogEntry("error", "Configuration generation error", ""))
            /\ returned' = Some([success |-> FALSE, error |-> kind])
            /\ pc' = "returned"
            /\ UNCHANGED call
       ELSE /\ log' = Append(log, LogEntry(CandidateHandler(kind),
                                           IF CandidateHandler(kind) = "warning"
                                           THEN "Permission denied"
                                           ELSE "Error writing config", config_path))
            /\ call' = Some(NextCandidate(call[1]))
            /\ pc' = "candidate"
            /\ UNCHANGED returned

\* a file that open(path, 'a') has opened: what it held is kept
Truncated_Keep(file) ==
    [file EXCEPT !.exists = TRUE, !.readable = IF file.exists THEN @ ELSE TRUE]
\* a file that open(path, 'w') has opened: it exists, is empty, and is the
\* caller's own if the call created it
Truncated(file) ==
    [file EXCEPT !.exists = TRUE, !.readable = IF file.exists THEN @ ELSE TRUE,
                 !.content = ""]

\* lines 116-120: os.makedirs for a user path, then open(config_path, 'w')
OpenCandidate ==
    /\ pc = "candidate" /\ call[1].i <= Len(ConfigPaths)
    /\ ~(IsSystemPath(config_path) /\ ~fs[1][Dirname(config_path)].exists)
    /\ LET parent == fs[1][Dirname(config_path)]
           made == [fs[1] EXCEPT ![Dirname(config_path)].exists = TRUE]
           mode == fs[1][config_path].mode
       IN  IF ~parent.exists /\ parent.mode = "denied"
           THEN CandidateRaises("PermissionError", fs[1])
           ELSE IF mode \in {"denied", "error"}
           THEN CandidateRaises(Raised(mode), made)
           ELSE /\ fs' = Some([made EXCEPT ![config_path] = Truncated(@)])
                /\ pc' = "write"
                /\ UNCHANGED <<log, call, returned>>
    /\ Idle

\* lines 121-123: f.write(config_content) and the close of the with block
WriteCandidate ==
    /\ pc = "write"
    /\ IF fs[1][config_path].mode = "ok"
       THEN /\ fs' = Some([fs[1] EXCEPT ![config_path].content = call[1].config_content])
            /\ log' = Append(log, LogEntry("info", "Configuration saved", config_path))
            /\ pc' = "gpsd"
            /\ UNCHANGED <<call, returned>>
       ELSE \E left \in Prefixes(call[1].config_content) :
               CandidateRaises("OSError", [fs[1] EXCEPT ![config_path].content = left])
    /\ Idle

\* lines 135-140: the except clauses around one gpsd path
GpsdHandler_None(kind) == "propagate"
GpsdHandler(kind) ==
    IF kind = "PermissionError" THEN "warning"
    ELSE IF kind \in Exceptions THEN "error"
    ELSE "propagate"

\* lines 126-140: one pass of the loop over gpsd_paths; an exception its
\* handlers did not take would leave the try block of the candidate
WriteGpsd ==
    /\ pc = "gpsd" /\ call[1].j <= Len(GpsdPaths)
    /\ LET mode == fs[1][gpsd_path].mode
       IN  IF StartsWith(gpsd_path, "/etc/") /\ ~fs[1][Dirname(gpsd_path)].exists
           THEN /\ log' = Append(log, LogEntry("info", "Skipping", gpsd_path))
                /\ call' = Some(NextGpsd(call[1]))
                /\ UNCHANGED <<pc, fs, returned>>
           ELSE IF mode \in {"denied", "error"}
           THEN IF GpsdHandler(Raised(mode)) = "propagate"
                THEN CandidateRaises(Raised(mode), fs[1])
                ELSE /\ log' = Append(log, LogEntry(GpsdHandler(Raised(mode)),
                                                    IF GpsdHandler(Raised(mode)) = "warning"
                                                    THEN "Permission denied"
                                                    ELSE "Error writing gpsd config",
                                                    gpsd_path))
                     /\ call' = Some(NextGpsd(call[1]))
                     /\ UNCHANGED <<pc, fs, returned>>
           ELSE /\ fs' = Some([fs[1] EXCEPT ![gpsd_path] =
                                   [Truncated(@) EXCEPT !.content = call[1].gpsd_content]])
                /\ log' = Append(log, LogEntry("info", "gpsd defaults saved", gpsd_path))
                /\ pc' = "mirror"
                /\ UNCHANGED <<call, returned>>
    /\ Idle

\* the loop over gpsd_paths ran out without a write
GpsdExhausted ==
    /\ pc = "gpsd" /\ call[1].j > Len(GpsdPaths)
    /\ pc' = "mirror"
    /\ UNCHANGED <<fs, log, call, returned>>
    /\ Idle

MirrorApplies == ~StartsWith(config_path, "/etc/") /\ fs[1][EtcKismet].exists

\* lines 143-152: shutil.copy2 to /etc/kismet/kismet_site.conf, whose failure
\* is logged and swallowed, then the return.  The copy can only succeed where
\* the earlier write of the same file failed for want of space.
MirrorCopy ==
    /\ pc = "mirror" /\ MirrorApplies
    /\ LET etc_path == ConfigPaths[1]
           copied == [fs[1] EXCEPT ![etc_path] =
                         [Truncated(@) EXCEPT !.content = fs[1][config_path].content]]
           failed == LogEntry("warning", "Could not copy", etc_path)
       IN  IF fs[1][etc_path].mode = "partial"
           THEN \/ /\ fs' = Some(copied)
                   /\ log' = Append(log, LogEntry("info", "Configuration also copied", etc_path))
                \/ /\ \E left \in Prefixes(fs[1][config_path].content) :
                         fs' = Some([copied EXCEPT ![etc_path].content = left])
                   /\ log' = Append(log, failed)
           ELSE /\ log' = Append(log, failed)
                /\ UNCHANGED fs
    /\ returned' = Some(Returns(config_path))
    /\ pc' = "returned"
    /\ UNCHANGED call
    /\ Idle

\* line 152 with no copy to make
ReturnSuccess ==
    /\ pc = "mirror" /\ ~MirrorApplies
    /\ returned' = Some(Returns(config_path))
    /\ pc' = "returned"
    /\ UNCHANGED <<fs, log, call>>
    /\ Idle

\* lines 161-162: every candidate was skipped or failed
ReturnFailure ==
    /\ pc = "candidate" /\ call[1].i > Len(ConfigPaths)
    /\ log' = Append(log, LogEntry("error", "Could not write configuration to any location", ""))
    /\ returned' = Some(CouldNotWrite)
    /\ pc' = "returned"
    /\ UNCHANGED <<fs, call>>
    /\ Idle

NextSave ==
    \/ SaveBegin
    \/ SkipCandidate
    \/ OpenCandidate
    \/ WriteCandidate
    \/ WriteGpsd
    \/ GpsdExhausted
    \/ MirrorCopy
    \/ ReturnSuccess
    \/ ReturnFailure

SpecSave == InitSave /\ [][NextSave]_vars

\* what the loop over config_paths logged, in order, as candidate indexes
CandidateIndex(path) == CHOOSE i \in 1..Len(ConfigPaths) : ConfigPaths[i] = path
IsCandidateEntry(entry) ==
    /\ entry.what \in {"Skipping", "Permission denied", "Error writing config",
                       "Configuration saved"}
    /\ \E i \in 1..Len(ConfigPaths) : ConfigPaths[i] = entry.path
CandidateEntries == SelectSeq(log, IsCandidateEntry)
Written == {i \in 1..Len(ConfigPaths) :
               InList(LogEntry("info", "Configuration saved", ConfigPaths[i]), log)}
SkippedOrFailed(i) ==
    \/ InList(LogEntry("info", "Skipping", ConfigPaths[i]), log)
    \/ InList(LogEntry("warning", "Permission denied", ConfigPaths[i]), log)
    \/ InList(LogEntry("error", "Error writing config", ConfigPaths[i]), log)

\* the candidates are taken one by one from the first, and once save_config
\* has returned success exactly one was written, it holds the generated
\* content, it is the path returned, and the ones before it did not succeed
PriorityOrder ==
    /\ \A n \in 1..Len(CandidateEntries) : CandidateIndex(CandidateEntries[n].path) = n
    /\ Cardinality(Written) <= 1
    /\ returned # None /\ returned[1].success =>
          \E k \in 1..Len(ConfigPaths) :
             /\ Written = {k}
             /\ returned[1].path = ConfigPaths[k]
             /\ fs[1][ConfigPaths[k]].content = call[1].config_content
             /\ Len(CandidateEntries) = k
             /\ \A i \in 1..(k - 1) : SkippedOrFailed(i)

\* a step of the loop touches the candidate it is at and no other, and none
\* after a candidate was written; the copy to /etc/kismet is outside the loop
StopsAtFirstSuccess ==
    \A i \in 1..Len(ConfigPaths) :
        (pc \in {"save", "candidate", "write", "gpsd", "mirror"}
         /\ fs'[1][ConfigPaths[i]] # fs[1][ConfigPaths[i]]) =>
            \/ pc \in {"candidate", "write"} /\ i = call[1].i /\ Written = {}
            \/ pc = "mirror" /\ i = 1

\* C10: save_config tries the candidate paths in priority order and stops at
\* the first one it writes: on success exactly one candidate was written by
\* the loop, every candidate before it was skipped or failed, none after it
\* was touched, and the returned path is the one written.
C10_FirstWritable ==
    [](pc \in {"candidate", "write", "gpsd", "mirror", "returned"} => PriorityOrder)
    /\ [][StopsAtFirstSuccess]_vars

\* the first candidate was refused, the second written and returned
C10_Witness ==
    /\ pc = "returned" /\ returned[1].success
    /\ returned[1].path = ConfigPaths[2]
    /\ InList(LogEntry("warning", "Permission denied", ConfigPaths[1]), log)
    /\ fs[1][ConfigPaths[3]].exists /\ fs[1][ConfigPaths[3]].content = OldText(3)

\* candidate i could have been written, the files being as they were at the call
CanWrite(i) ==
    LET parent == fs0[1][Dirname(ConfigPaths[i])]
    IN  /\ fs0[1][ConfigPaths[i]].mode = "ok"
        /\ IF IsSystemPath(ConfigPaths[i]) THEN parent.exists
           ELSE parent.exists \/ parent.mode = "ok"
SavePcs == {"save", "candidate", "write", "gpsd", "mirror", "returned"}

\* C11: save_config never raises: what it returns is a dict and never the
\* outcome of an exception that left the loop; an error on a candidate is logged and the next
\* candidate is the one tried; and success is False only after every candidate
\* was tried and skipped or failed, none of them being writable.
C11_NeverRaises ==
    pc \in SavePcs =>
        /\ pc = "returned" => returned # None /\ returned[1].success \in BOOLEAN
        /\ pc \in {"candidate", "write"} => call[1].i = Len(CandidateEntries) + 1
        /\ returned # None /\ ~returned[1].success =>
              /\ returned[1] = CouldNotWrite
              /\ Written = {}
              /\ \A i \in 1..Len(ConfigPaths) : SkippedOrFailed(i) /\ ~CanWrite(i)

\* a failed save where the three candidates failed in the three ways
C11_Witness ==
    /\ pc = "returned" /\ ~returned[1].success
    /\ log[2] = LogEntry("info", "Skipping", ConfigPaths[1])
    /\ log[3] = LogEntry("warning", "Permission denied", ConfigPaths[2])
    /\ log[4] = LogEntry("error", "Error writing config", ConfigPaths[3])

\* C12: when every candidate fails, each candidate file is after the failed
\* save what it was before it: none is left truncated or partly written.
C12_NoPartialFile ==
    pc = "returned" /\ ~returned[1].success =>
        \A i \in 1..Len(ConfigPaths) : fs[1][ConfigPaths[i]] = fs0[1][ConfigPaths[i]]

\* what the loop over gpsd_paths and the copy to /etc/kismet logged
IsSecondaryEntry(entry) ==
    \/ \E j \in 1..Len(GpsdPaths) : entry.path = GpsdPaths[j]
    \/ entry.what \in {"Configuration also copied", "Could not copy"}
SecondaryEntries == SelectSeq(log, IsSecondaryEntry)
GpsdFailed(j) ==
    \/ InList(LogEntry("info", "Skipping", GpsdPaths[j]), log)
    \/ InList(LogEntry("warning", "Permission denied", GpsdPaths[j]), log)
    \/ InList(LogEntry("error", "Error writing gpsd config", GpsdPaths[j]), log)

\* C13: once a candidate is written, whatever happens to the gpsd defaults
\* and to the copy to /etc/kismet, save_config returns success with the path
\* it wrote; and when no candidate was written neither the gpsd defaults nor
\* the copy is tried: nothing of them is logged and no gpsd file is touched.
C13_SecondaryWritesDoNotCount ==
    pc \in SavePcs =>
        /\ pc \in {"gpsd", "mirror"} => Written # {}
        /\ pc = "returned" /\ Written # {} =>
              \E k \in Written : returned[1] = [success |-> TRUE, path |-> ConfigPaths[k]]
        /\ Written = {} =>
              /\ SecondaryEntries = <<>>
              /\ \A j \in 1..Len(GpsdPaths) : fs[1][GpsdPaths[j]] = fs0[1][GpsdPaths[j]]

\* success returned although no gpsd path could be written and the copy failed
C13_Witness ==
    /\ pc = "returned" /\ returned[1].success
    /\ \A j \in 1..Len(GpsdPaths) : GpsdFailed(j)
    /\ InList(LogEntry("warning", "Could not copy", ConfigPaths[1]), log)

(***************************************************************************)
(* Claims about the source codec                                           *)
(***************************************************************************)
\* the prefix and the options of the directive at hand, cut as the parser
\* cuts them
LinePrefix == SplitPrefixTail(Strip(line[1]))[1]
LineOpts == ParseOpts(SplitPrefixTail(Strip(line[1]))[2])
HasOpt(k) == k \in DOMAIN LineOpts
OptIs(k, v) == HasOpt(k) /\ ~LineOpts[k].flag /\ Lower(LineOpts[k].s) = v
IdentifyingField(source) ==
    IF source.type = "rtl433" THEN source.device ELSE source.interface
Returned == pc = "parsed" /\ parsed # None

\* C14: every source dict _parse_source_line returns has a non-empty
\* identifying field: interface for WiFi and Bluetooth, device for SDR.
C14_IdentifyingFieldNonEmpty ==
    Returned => IdentifyingField(parsed[1]) # ""

\* C15: a directive without a `name` option parses with the name equal to
\* the parsed identifying field, whichever option or prefix that came from.
C15_NameDefaultsToIdentifyingField ==
    Returned /\ ~HasOpt("name") => parsed[1].name = IdentifyingField(parsed[1])

\* C16: the type is Bluetooth when the prefix starts with hci or contains
\* bluetooth or the options hold type=bluetooth; otherwise SDR when the
\* prefix contains rtl433 or the options hold type=rtl433; otherwise WiFi.
\* Letter case is not told apart, as in the code.
C16_TypeInference ==
    Returned =>
        LET bluetooth == \/ StartsWith(Lower(LinePrefix), "hci")
                         \/ Contains(Lower(LinePrefix), "bluetooth")
                         \/ OptIs("type", "bluetooth")
            sdr == Contains(Lower(LinePrefix), "rtl433") \/ OptIs("type", "rtl433")
        IN  /\ bluetooth => parsed[1].type = "bluetooth"
            /\ ~bluetooth /\ sdr => parsed[1].type = "rtl433"
            /\ ~bluetooth /\ ~sdr => parsed[1].type = "wifi"

\* a directive that passes both tests is Bluetooth
C16_Witness ==
    /\ Returned /\ line[1] = "hci-rtl433:type=rtl433"
    /\ parsed[1].type = "bluetooth"

\* `,k=v` when v is set
Tail17(k, v) == IF v # "" THEN "," \o k \o "=" \o v ELSE ""
SdrExample ==
    [type |-> "rtl433", device |-> "rtl433-0", name |-> "test", frequency |-> "433920000"]

\* C17: an SDR dict generates the device, one colon, and type=rtl433, channel
\* (when a frequency is set), name (when it differs from the device), gain,
\* ppm_error in that order, joined by commas; the example generates
\* rtl433-0:type=rtl433,channel=433920000,name=test and its config line
\* starts with source=rtl433-0:type=rtl433,
C17_SdrOptionOrder ==
    pc = "generated" /\ src[1].type = "rtl433" =>
        /\ line # None
        /\ line[1] = src[1].device \o ":type=rtl433"
                     \o Tail17("channel", src[1].frequency)
                     \o (IF src[1].name # src[1].device
                         THEN Tail17("name", src[1].name) ELSE "")
                     \o Tail17("gain", Get(src[1], "gain", ""))
                     \o Tail17("ppm_error", Get(src[1], "ppm_error", ""))
        /\ src[1] = SdrExample =>
              /\ line[1] = "rtl433-0:type=rtl433,channel=433920000,name=test"
              /\ StartsWith(SourceLines(<<src[1]>>, 1)[1], "source=rtl433-0:type=rtl433,")

C17_Witness ==
    pc = "generated" /\ src[1] = SdrExample /\ line # None

\* C18: a directive classified as SDR parses with the device from the
\* `device` option or else the prefix, the frequency from the `channel`
\* option or else the `frequency` option, gain and ppm_error exactly when
\* the directive has them; the example parses to rtl433-0 / test / 433920000.
C18_SdrParse ==
    Returned /\ parsed[1].type = "rtl433" =>
        /\ parsed[1].device = IF OptTruthy(LineOpts, "device")
                              THEN OptText(LineOpts["device"]) ELSE LinePrefix
        /\ parsed[1].frequency = IF HasOpt("channel") THEN OptText(LineOpts["channel"])
                                 ELSE IF HasOpt("frequency")
                                 THEN OptText(LineOpts["frequency"]) ELSE ""
        /\ \A k \in {"gain", "ppm_error"} :
              /\ k \in DOMAIN parsed[1] <=> HasOpt(k)
              /\ HasOpt(k) => parsed[1][k] = OptText(LineOpts[k])
        /\ line[1] = "rtl433-0:type=rtl433,channel=433920000,name=test" =>
              parsed[1] = SdrExample

\* the device came from the option and the frequency from `frequency`
C18_Witness ==
    /\ Returned /\ line[1] = "rtl433:device=rtl433-1,frequency=915M,gain=20,ppm_error=2"
    /\ parsed[1].device = "rtl433-1" /\ parsed[1].frequency = "915M"
    /\ parsed[1].gain = "20"

(***************************************************************************)
(* The gpsd defaults as a state machine: the content is generated from a   *)
(* config_data dict and parsed back.                                       *)
(***************************************************************************)
GpsdHosts == {"0.0.0.0", "192.168.1.10", "::1"}
GpsdPorts == {"4545", "2947", "1"}

\* the GPS keys of the form with every GPS type, remote host and remote
\* port, and two dicts that leave keys to the defaults of .get
GpsdDocs ==
    {[GpsForm(type, "latlon", "", "", "0", "") EXCEPT
         !.gps_remote_host = host, !.gps_remote_port = port] :
        type \in {"disabled", "gpsd", "remote", "virtual"},
        host \in GpsdHosts, port \in GpsdPorts}
    \cup {EmptyDict, [gps_type |-> "remote"]}

InitGpsd ==
    /\ SourceIdle /\ MgrsIdle /\ ConfigIdle /\ FilesIdle /\ RtlIdle
    /\ pc = "gpsd doc"
    /\ gdoc \in {Some(d) : d \in GpsdDocs}
    /\ gtext = None
    /\ gparsed = None

GenerateGpsd ==
    /\ pc = "gpsd doc"
    /\ gtext' = Some(GenerateGpsdDefaults(gdoc[1]))
    /\ pc' = "gpsd text"
    /\ UNCHANGED <<gdoc, gparsed, sourceVars, mgrsVars, configVars, fileVars, rtlVars>>

ParseGpsd ==
    /\ pc = "gpsd text"
    /\ gparsed' = Some(ParseGpsdDefaults(gtext[1]))
    /\ pc' = "gpsd parsed"
    /\ UNCHANGED <<gdoc, gtext, sourceVars, mgrsVars, configVars, fileVars, rtlVars>>

NextGpsdDefaults == GenerateGpsd \/ ParseGpsd

SpecGpsd == InitGpsd /\ [][NextGpsdDefaults]_vars

\* the lines of the generated content, without the piece after the last newline
GpsdTextLines == Split(gtext[1], "\n")
RemoteHost == Get(gdoc[1], "gps_remote_host", "0.0.0.0")
RemotePort == Get(gdoc[1], "gps_remote_port", "4545")
IsRemote == Get(gdoc[1], "gps_type", "disabled") = "remote"

\* C19: the generated gpsd defaults are four lines ended by a newline, the
\* first three fixed and the fourth DEVICES="..."; parsed back they give
\* remote with the document's host and port when its GPS type is remote
\* (0.0.0.0 and 4545 give DEVICES="udp://0.0.0.0:4545"), and local (gpsd)
\* for every other type.
C19_GpsdDefaultsRoundTrip ==
    /\ pc \in {"gpsd text", "gpsd parsed"} =>
          /\ Len(GpsdTextLines) = 5 /\ GpsdTextLines[5] = ""
          /\ SubSeq(GpsdTextLines, 1, 3) =
                <<"START_DAEMON=\"true\"", "USBAUTO=\"true\"", "GPSD_OPTIONS=\"-n\"">>
          /\ StartsWith(GpsdTextLines[4], "DEVICES=\"")
          /\ IsRemote /\ RemoteHost = "0.0.0.0" /\ RemotePort = "4545" =>
                GpsdTextLines[4] = "DEVICES=\"udp://0.0.0.0:4545\""
    /\ pc = "gpsd parsed" =>
          IF IsRemote
          THEN gparsed[1] = [type |-> "remote", remote_host |-> RemoteHost,
                             remote_port |-> IntParse(RemotePort)]
          ELSE gparsed[1] = [type |-> "gpsd"]

\* a remote document whose host itself holds colons came back whole
C19_Witness ==
    /\ pc = "gpsd parsed" /\ IsRemote /\ RemoteHost = "::1" /\ RemotePort = "2947"
    /\ gparsed[1].remote_host = "::1" /\ gparsed[1].remote_port = 2947

(***************************************************************************)
(* Claims about the gpsd overlay of load_config                            *)
(***************************************************************************)
\* gps_config as the site file alone gives it: the defaults, or what the
\* overlaid candidate parsed to
MainGps ==
    IF LoadedFrom = {} THEN LoadDefaults.gps_config
    ELSE ParseConfigFile(fs[1][ConfigPaths[Min(LoadedFrom)]].content)[1].gps_config
\* the gpsd defaults files that exist and can be read, by index
ReadableDefaults ==
    {j \in 1..Len(GpsdPaths) : fs[1][GpsdPaths[j]].exists /\ fs[1][GpsdPaths[j]].readable}
DefaultsText == fs[1][GpsdPaths[Min(ReadableDefaults)]].content
DefaultsRemote == ReadableDefaults # {} /\ Contains(DefaultsText, "DEVICES=\"udp://")

\* C20: the gpsd defaults decide between local and remote only: a site file
\* without gps directive or with a virtual one loads as disabled or virtual
\* whatever the defaults file holds; with a gpsd directive a udp://host:port
\* DEVICES value loads as remote with that host and port and anything else
\* as local.
C20_OverlayOnlyLocalRemote ==
    pc = "loaded" =>
        /\ MainGps.type \in {"disabled", "virtual"} =>
              loaded[1].gps_config.type = MainGps.type
        /\ MainGps.type = "gpsd" =>
              IF DefaultsRemote
              THEN /\ loaded[1].gps_config.type = "remote"
                   /\ loaded[1].gps_config.remote_host = "0.0.0.0"
                   /\ loaded[1].gps_config.remote_port = 4545
              ELSE loaded[1].gps_config.type = "gpsd"


(***************************************************************************)
(* Determinism of the generators                                           *)
(***************************************************************************)
\* the second of two generations, called on the document the first was
\* called on: the first has run once and has left its argument as it was
SecondOnEqualDocument ==
    /\ pc = "generated" /\ gens = 1 /\ doc = doc0
    /\ Generate

\* C21: two calls of _generate_config_content on equal documents return
\* identical text, whenever they are made (and so do two calls of
\* _generate_gpsd_defaults, which reads nothing but its argument).
C21_Deterministic ==
    [][SecondOnEqualDocument => text' = text]_vars


(***************************************************************************)
(* Source directives that do not parse                                     *)
(***************************************************************************)
IsSourceDirective(ln) == Contains(Strip(ln), "=") /\ KeyOf(Strip(ln)) = "source"
SourceValue(ln) == Strip(SplitOnce(Strip(ln), "=")[2])
Unparsable(ln) ==
    /\ ~IsMarkerText(ln) /\ ~StartsWith(Strip(ln), "#")
    /\ IsSourceDirective(ln)
    /\ ParseSourceLine(SourceValue(ln)) = None
Kept(ln) == ~Unparsable(ln)
Parsable(ln) == IsSourceDirective(ln) /\ Kept(ln) /\ ~StartsWith(Strip(ln), "#")
\* the file at hand without its unparsable source directives
WithoutUnparsable == Join(SelectSeq(TextLines, Kept), "\n")

\* C22: a source directive that _parse_source_line cannot parse is dropped
\* without raising, and every other line of the file, before or after it, is
\* applied: the file parses to what it parses to without that directive.
C22_UnparsableSourceDropped ==
    (/\ pc = "parsed"
     /\ LinesWhere(TextLines, Unparsable) # {}
     /\ ParseConfigFile(WithoutUnparsable) # None)
        => /\ redoc # None
           /\ redoc = ParseConfigFile(WithoutUnparsable)
           /\ Len(redoc[1].data_sources)
                  = Cardinality(LinesWhere(TextLines, Parsable))

\* a file with an unparsable source directive between two that parse, and a
\* gps line and a marker after it, all of them applied
C22_Witness ==
    /\ pc = "parsed" /\ redoc # None
    /\ \E k \in LinesWhere(TextLines, Unparsable) :
          /\ \E i \in LinesWhere(TextLines, Parsable) : i < k
          /\ \E j \in LinesWhere(TextLines, Parsable) : j > k
          /\ \E g \in LinesWhere(TextLines, IsGpsDirective) : g > k
    /\ Len(redoc[1].data_sources) = 2
    /\ redoc[1].gps_config.type = "gpsd"
    /\ redoc[1].logging_config.log_title = "a"
    /\ redoc[1].wardrive_mode


(***************************************************************************)
(* device_detector.py: _parse_rtl_test                                     *)
(***************************************************************************)
\* the length of the run of digits, and of white space, that s starts with
LeadingDigits(s) ==
    LET stop == {i \in 1..Len(s) : ~IsDigit(Char(s, i))}
    IN  IF stop = {} THEN Len(s) ELSE Min(stop) - 1
LeadingSpaces(s) ==
    LET stop == {i \in 1..Len(s) : Char(s, i) \notin Whitespace}
    IN  IF stop = {} THEN Len(s) ELSE Min(stop) - 1

\* what follows the digits and the colon
AfterIndex(ln) == SubSeq(ln, LeadingDigits(ln) + 2, Len(ln))

\* re.match(r'\d+:\s+', line)
IndexedLine(ln) ==
    /\ LeadingDigits(ln) >= 1
    /\ LeadingDigits(ln) < Len(ln)
    /\ Char(ln, LeadingDigits(ln) + 1) = ":"
    /\ LeadingSpaces(AfterIndex(ln)) >= 1

\* re.match(r'(\d+):', line).group(1)
DeviceId(ln) == SubSeq(ln, 1, LeadingDigits(ln))

\* re.sub(r'^\d+:\s+', '', line)
DeviceContent(ln) ==
    SubSeq(AfterIndex(ln), LeadingSpaces(AfterIndex(ln)) + 1, Len(AfterIndex(ln)))

\* s.replace(p, '')
RECURSIVE Remove(_, _)
Remove(s, p) ==
    IF Len(s) < Len(p) THEN s
    ELSE IF StartsWith(s, p) THEN Remove(SubSeq(s, Len(p) + 1, Len(s)), p)
    ELSE Char(s, 1) \o Remove(SubSeq(s, 2, Len(s)), p)

\* a detector that names the device after its serial number
DeviceName_Serial(device_id, serial) == "rtl433-" \o serial
\* f"rtl433-{device_id}"
DeviceName(device_id, serial) == "rtl433-" \o device_id

\* the record appended for one device line
RtlDevice(ln) ==
    LET device_id == DeviceId(ln)
        pieces == Split(DeviceContent(ln), ",")
        parts == [i \in 1..Len(pieces) |-> Strip(pieces[i])]
        sn == {i \in 2..Len(parts) : StartsWith(parts[i], "SN:")}
        serial == IF sn = {} THEN device_id
                  ELSE Strip(Remove(parts[CHOOSE i \in sn : \A j \in sn : j <= i], "SN:"))
        manufacturer == parts[1]
        model == IF Len(parts) >= 2 /\ 2 \notin sn THEN parts[2] ELSE ""
    IN  [device |-> DeviceName(device_id, serial),
         device_id |-> device_id,
         name |-> IF model # "" THEN manufacturer \o " " \o model ELSE manufacturer,
         type |-> "RTL-SDR",
         serial |-> serial,
         manufacturer |-> manufacturer,
         model |-> model,
         status |-> "available",
         default_frequency |-> "433920000",
         supported_frequencies |-> <<"433920000", "915000000", "Custom">>]

\* the loop over the lines of the output
RECURSIVE RtlLoop(_, _, _)
RtlLoop(lines, i, found) ==
    IF i > Len(lines) THEN found
    ELSE LET ln == Strip(lines[i])
         IN  IF StartsWith(ln, "Found") /\ Contains(ln, "device(s):")
             THEN RtlLoop(lines, i + 1, found)
             ELSE IF IndexedLine(ln)
             THEN RtlLoop(lines, i + 1, Append(found, RtlDevice(ln)))
             ELSE RtlLoop(lines, i + 1, found)

\* _parse_rtl_test(output)
ParseRtlTest(output) == RtlLoop(Split(output, "\n"), 1, <<>>)

\* lines rtl_test prints, and lines it does not
ExampleLine == "  0:  Realtek, RTL2838UHIDIR, SN: 00000001"
RtlLines ==
    {"Found 1 device(s):",
     ExampleLine,
     "  1:  Nooelec, NESDR SMArt v5, SN: 7",
     "12: Generic",
     "2:\tRealtek, SN: 00000002, RTL2838",
     "Using device 0: Generic RTL2832U OEM",
     "Found Rafael Micro R820T tuner",
     "",
     "3:x",
     "No supported devices found."}

\* the output verify_sdr_config.py tests with
VerifyOutput ==
    Join(<<"Found 1 device(s):", ExampleLine, "",
           "Using device 0: Generic RTL2832U OEM",
           "Detached kernel driver",
           "Found Rafael Micro R820T tuner",
           "[R82XX] PLL not locked!",
           "Sampling at 2048000 S/s.",
           "No E4000 tuner found, aborting.">>, "\n")

MaxRtlLines == 2
RtlOutputs ==
    {VerifyOutput}
    \cup {Join(ls, "\n") : ls \in UNION {[1..n -> RtlLines] : n \in 1..MaxRtlLines}}

InitRtl ==
    /\ SourceIdle /\ MgrsIdle /\ ConfigIdle /\ FilesIdle /\ GpsdIdle
    /\ pc = "rtl output"
    /\ rtl_output \in {Some(o) : o \in RtlOutputs}
    /\ rtl_devices = None

ParseRtl ==
    /\ pc = "rtl output"
    /\ rtl_devices' = Some(ParseRtlTest(rtl_output[1]))
    /\ pc' = "rtl parsed"
    /\ UNCHANGED <<rtl_output, sourceVars, mgrsVars, configVars, fileVars, gpsdVars>>

NextRtl == ParseRtl

SpecRtl == InitRtl /\ [][NextRtl]_vars

\* the device lines of the output at hand, in input order
IsDeviceLine(raw) == IndexedLine(Strip(raw))
DeviceLines == SelectSeq(Split(rtl_output[1], "\n"), IsDeviceLine)

\* C23: _parse_rtl_test yields one record per indexed device line, in input
\* order, each named rtl433-<index> from the index its line starts with and
\* never from its serial number; the example line yields rtl433-0, device_id
\* 0 and serial 00000001; other lines yield no record.
C23_OneRecordPerDeviceLine ==
    pc = "rtl parsed" =>
        /\ Len(rtl_devices[1]) = Len(DeviceLines)
        /\ \A k \in 1..Len(DeviceLines) :
              LET ln == Strip(DeviceLines[k])
                  dev == rtl_devices[1][k]
              IN  /\ dev.device_id = DeviceId(ln)
                  /\ dev.device = "rtl433-" \o DeviceId(ln)
                  /\ DeviceLines[k] = ExampleLine =>
                        /\ dev.device = "rtl433-0"
                        /\ dev.device_id = "0"
                        /\ dev.serial = "00000001"

\* the output of verify_sdr_config.py parsed to its one device, and an
\* output of two device lines whose serial numbers are not their indexes
C23_Witness ==
    /\ pc = "rtl parsed"
    /\ \/ /\ rtl_output[1] = VerifyOutput
          /\ Len(rtl_devices[1]) = 1
          /\ rtl_devices[1][1].device = "rtl433-0"
          /\ rtl_devices[1][1].serial = "00000001"
       \/ /\ Len(rtl_devices[1]) = 2
          /\ rtl_devices[1][1].device = "rtl433-1"
          /\ rtl_devices[1][1].serial = "7"
          /\ rtl_devices[1][2].device = "rtl433-0"


(***************************************************************************)
(* load_config: malformed numbers, default fields, the enabled flag        *)
(***************************************************************************)
\* a line whose number int() does not take: pcapng_log_max_mb, or the port
\* of a gpsd: directive
BadPort(param) ==
    StartsWith(param, "port=") /\ ~IntParses(Strip(SubSeq(param, 6, Len(param))))
BadNumberLine(ln) ==
    \/ /\ StartsWith(ln, "pcapng_log_max_mb=")
       /\ ~IntParses(Strip(SubSeq(ln, Len("pcapng_log_max_mb=") + 1, Len(ln))))
    \/ /\ StartsWith(ln, "gps=gpsd:")
       /\ \E k \in 1..Len(Split(SubSeq(ln, Len("gps=gpsd:") + 1, Len(ln)), ",")) :
             BadPort(Split(SubSeq(ln, Len("gps=gpsd:") + 1, Len(ln)), ",")[k])
HasBadNumber(content) == LinesWhere(Split(content, "\n"), BadNumberLine) # {}
FirstReadable == Min(ReadableCandidates)

\* C26: a malformed number in a recognized key does not abort the load: the
\* other keys of that file (here its log_title) are overlaid, and no
\* lower-priority candidate is used in its place.
C26_BadNumberDoesNotAbort ==
    (/\ pc = "loaded"
     /\ ReadableCandidates # {}
     /\ HasBadNumber(fs[1][ConfigPaths[FirstReadable]].content))
        => /\ loaded[1].logging_config.log_title
                 = TitleOf(fs[1][ConfigPaths[FirstReadable]].content)
           /\ LoadedFrom \subseteq {FirstReadable}

\* C28: the dict load_config returns holds every field of the defaults,
\* whether or not a site file was overlaid.
C28_EveryDefaultField ==
    pc = "loaded" =>
        /\ DOMAIN LoadDefaults \subseteq DOMAIN loaded[1]
        /\ DOMAIN LoadDefaults.gps_config \subseteq DOMAIN loaded[1].gps_config
        /\ DOMAIN LoadDefaults.logging_config \subseteq DOMAIN loaded[1].logging_config

\* C29: in the dict load_config returns, gps_config.enabled is true exactly
\* when gps_config.type is not `disabled`.
C29_EnabledIffNotDisabled ==
    pc = "loaded" =>
        (loaded[1].gps_config.enabled <=> loaded[1].gps_config.type # "disabled")


(***************************************************************************)
(* Quoted option values                                                    *)
(***************************************************************************)
\* the option keys _generate_source_line writes for a WiFi source
WifiOptionKeys ==
    {"name", "channel", "channels", "channel_hop", "channel_hoprate",
     "ht_channels", "vht_channels", "band24ghz", "band5ghz", "band6ghz"}

\* C27: a quoted value of the option tail is one value even when it holds
\* commas: the channels="<list>" generated for a list of several channels
\* parses back to that list and adds no option key.
C27_QuotedValueIsOneValue ==
    (/\ Returned
     /\ src # None
     /\ src[1].type = "wifi"
     /\ Contains(src[1].channels, ","))
        => /\ parsed[1].channels = src[1].channels
           /\ DOMAIN LineOpts \subseteq WifiOptionKeys


(***************************************************************************)
(* save_config and load_config on one file system: a load that follows the *)
(* save, and a load by another request while the save is running.  Neither *)
(* call takes a lock (lines 52-63, 120-121), so the load may run between   *)
(* any two steps of the save.                                              *)
(***************************************************************************)
\* one config_data per GPS mode, as the form handler builds them
CycleDocs ==
    {ConfigData(<<SampleWifi>>, BaseAlerts, TRUE,
                LoggingForm(<<"kismet", "pcapng">>, 0, TRUE, TRUE), BaseGps),
     ConfigData(<<>>, BaseAlerts, FALSE, LoggingForm(<<"kismet">>, 100, FALSE, TRUE),
                [GpsForm("gpsd", "latlon", "", "", "0", "") EXCEPT
                    !.gps_host = "10.0.0.5", !.gps_port = "2948"]),
     ConfigData(<<SampleSdr>>, BaseAlerts, FALSE, LoggingForm(<<"kismet">>, 0, TRUE, FALSE),
                [GpsForm("remote", "latlon", "", "", "0", "") EXCEPT
                    !.gps_remote_host = "192.168.1.10", !.gps_remote_port = "4546"]),
     ConfigData(<<>>, BaseAlerts, FALSE, LoggingForm(<<"kismet">>, 0, TRUE, TRUE),
                GpsForm("virtual", "latlon", "40.1", "-75.2", "10", ""))}

\* which candidates exist, can be read and can be written
CycleFileSystems ==
    {(EtcKismet :> e[1]) @@ (ConfigPaths[1] :> e[2])
     @@ (Dirname(ConfigPaths[2]) :> h[1]) @@ (ConfigPaths[2] :> h[2])
     @@ (Dirname(ConfigPaths[3]) :> Dir(TRUE, "ok")) @@ (ConfigPaths[3] :> f3)
     @@ (Dirname(GpsdPaths[1]) :> g[1]) @@ (GpsdPaths[1] :> g[2])
     @@ (GpsdPaths[2] :> g[3])
     @@ ("/home/user/kismet" :> Dir(TRUE, "ok")) :
        e \in {<<Dir(FALSE, "denied"), MissingFile>>,
               <<Dir(TRUE, "ok"), MissingFile>>,
               <<Dir(TRUE, "ok"), File(OldText(1), TRUE, "ok")>>,
               <<Dir(TRUE, "ok"), File(OldText(1), TRUE, "denied")>>,
               <<Dir(TRUE, "ok"), File(OldText(1), FALSE, "denied")>>},
        h \in {<<Dir(FALSE, "denied"), MissingFile>>,
               <<Dir(FALSE, "ok"), MissingFile>>,
               <<Dir(TRUE, "ok"), File(OldText(2), TRUE, "ok")>>},
        f3 \in {MissingFile, File(OldText(3), TRUE, "partial")},
        g \in {<<Dir(FALSE, "denied"), MissingFile, MissingFile>>,
               <<Dir(TRUE, "ok"), MissingFile, MissingFile>>,
               <<Dir(TRUE, "ok"), File("DEVICES=\"udp://0.0.0.0:4545\"\n", TRUE, "denied"),
                 [MissingFile EXCEPT !.mode = "denied"]>>}}

InitCycle ==
    /\ SourceIdle /\ MgrsIdle /\ GpsdIdle /\ RtlIdle
    /\ doc0 \in {Some(d) : d \in CycleDocs}
    /\ doc = None /\ text = None /\ redoc = None /\ gens = 0
    /\ pc = "save"
    /\ fs \in {Some(x) : x \in CycleFileSystems}
    /\ loaded = None
    /\ log = <<>>
    /\ call = None
    /\ returned = None
    /\ fs0 = fs

\* load_config(), once: after save_config has returned, or at any point of
\* its run
LoadNow ==
    /\ pc \in SavePcs
    /\ loaded = None
    /\ \E r \in {LoadConfig(fs[1])} : loaded' = Some(r.config) /\ log' = log \o r.log
    /\ pc' = IF pc = "returned" THEN "loaded" ELSE pc
    /\ UNCHANGED <<fs, call, returned, fs0, sourceVars, mgrsVars, configVars, gpsdVars,
                   rtlVars>>

NextCycle == NextSave \/ LoadNow

SpecCycle == InitCycle /\ [][NextCycle]_vars

\* the document the save was called with
Saved == call[1].config_data
SavedThenLoaded == pc = "loaded" /\ returned[1].success

\* source k of the loaded dict has the fields of source k of the saved one
SameSource(k) ==
    \A key \in DOMAIN Saved.data_sources[k] :
        /\ key \in DOMAIN loaded[1].data_sources[k]
        /\ loaded[1].data_sources[k][key] = Saved.data_sources[k][key]

\* C24: after a successful save, a load that follows it with no other writer
\* returns the sources, the logging settings and the survey flag of the saved
\* document, whichever candidates exist, can be read and can be written.
C24_LoadReadsTheSave ==
    SavedThenLoaded =>
        /\ Len(loaded[1].data_sources) = Len(Saved.data_sources)
        /\ \A k \in 1..Len(Saved.data_sources) : SameSource(k)
        /\ loaded[1].logging_config = Saved.logging_config
        /\ loaded[1].wardrive_mode = Saved.wardrive_mode

\* the load read the site file and the gpsd defaults this save wrote
ReadTheSavedFiles ==
    /\ ReadableCandidates # {}
    /\ fs[1][ConfigPaths[FirstReadable]].content = call[1].config_content
    /\ ReadableDefaults # {}
    /\ DefaultsText = call[1].gpsd_content

\* C25: for each GPS mode, a save and a load from the files the save wrote
\* give the mode of the saved document, and its host and port (Local), its
\* remote host and port (Remote) or its lat, lon and alt (Virtual).
C25_GpsModeRoundTrip ==
    (SavedThenLoaded /\ ReadTheSavedFiles) =>
        LET gps == loaded[1].gps_config
        IN  /\ gps.type = Saved.gps_type
            /\ Saved.gps_type = "gpsd" =>
                  gps.host = Saved.gps_host /\ gps.port = IntParse(Saved.gps_port)
            /\ Saved.gps_type = "remote" =>
                  /\ gps.remote_host = Saved.gps_remote_host
                  /\ gps.remote_port = IntParse(Saved.gps_remote_port)
            /\ Saved.gps_type = "virtual" =>
                  /\ gps.lat = Saved.gps_lat
                  /\ gps.lon = Saved.gps_lon
                  /\ gps.alt = Saved.gps_alt

\* the save has opened its candidate, which held a document before, and has
\* not written yet, and that candidate is the one a load reads
InTheWindow ==
    /\ pc = "write"
    /\ fs0[1][config_path].exists
    /\ fs[1][config_path].readable
    /\ FirstReadable = call[1].i
TitleBefore == TitleOf(fs0[1][config_path].content)

\* C30: the save writes in place, without a lock or a rename: a load that
\* runs after the open has emptied the file and before the write reads the
\* empty file, and returns a dict that is neither the one the file held
\* before nor the one being saved (its log_title is the parser's default and
\* it has no source).
C30_TornRead ==
    [][(InTheWindow /\ LoadNow) =>
          /\ loaded'[1].logging_config.log_title = DefaultLogging.log_title
          /\ loaded'[1].logging_config.log_title # TitleBefore
          /\ loaded'[1].logging_config.log_title # Saved.logging_config.log_title
          /\ loaded'[1].data_sources = <<>>]_vars

\* a load has run in the window: the save is still about to write, the log
\* says the candidate was loaded, and the dict has the default title while
\* the file held another before and the document being saved has a third
C30_Witness ==
    /\ pc = "write"
    /\ fs0[1][config_path].exists
    /\ fs[1][config_path].content = ""
    /\ loaded # None
    /\ InList(LogEntry("info", "Loaded config", config_path), log)
    /\ loaded[1].logging_config.log_title = DefaultLogging.log_title
    /\ TitleBefore # DefaultLogging.log_title
    /\ Saved.logging_config.log_title # DefaultLogging.log_title
    /\ Saved.data_sources # <<>>

====
